---- MODULE Spec2Model ----
(***************************************************************************)
(* Verification model of cockpit-container-apps (frontend).                *)
(*                                                                         *)
(* Part 1: the Command Gateway (frontend/src/api/index.ts): executeCommand *)
(*         and the streaming installPackage / removePackage.               *)
(* Part 2: argument encoding of listCategories, listPackagesByCategory and *)
(*         filterPackages.                                                 *)
(* Part 3: the ConfigForm engine (frontend/src/components/ConfigForm.tsx). *)
(*                                                                         *)
(* Text is modelled as a sequence of one-character strings, so that        *)
(* splitting, trimming, pattern matching and JSON parsing are computed     *)
(* character by character.  A fixed message of the program is a text of    *)
(* one token holding the whole message.                                    *)
(***************************************************************************)
EXTENDS Integers, Sequences, FiniteSets, TLC

\* ------------------------------------------------------------------------
\* Bounds
\* ------------------------------------------------------------------------
NumInv == 2          \* command invocations that can be in flight together
MaxPieces == 2       \* records a backend process writes to its stdout

\* ------------------------------------------------------------------------
\* Program constants
\* ------------------------------------------------------------------------
DefaultTimeout == 30000

Invs == 1..NumInv

NL == "\n"
Undefined == <<"<undefined>">>

\* ------------------------------------------------------------------------
\* Text helpers (String.prototype.trim, String.prototype.split('\n'))
\* ------------------------------------------------------------------------
IsSpace(c) == c \in {" ", NL}

RECURSIVE TrimLeft(_)
TrimLeft(s) ==
    IF s = <<>> THEN <<>>
    ELSE IF IsSpace(Head(s)) THEN TrimLeft(Tail(s)) ELSE s

RECURSIVE TrimRight(_)
TrimRight(s) ==
    IF s = <<>> THEN <<>>
    ELSE IF IsSpace(s[Len(s)]) THEN TrimRight(SubSeq(s, 1, Len(s) - 1)) ELSE s

Trim(s) == TrimRight(TrimLeft(s))

\* s.split('\n'): the pieces between the newlines, always at least one piece
RECURSIVE SplitNL(_)
SplitNL(s) ==
    IF \A k \in 1..Len(s) : s[k] # NL THEN <<s>>
    ELSE LET k == CHOOSE j \in 1..Len(s) :
                      s[j] = NL /\ \A m \in 1..(j - 1) : s[m] # NL
         IN  <<SubSeq(s, 1, k - 1)>> \o SplitNL(SubSeq(s, k + 1, Len(s)))

\* ------------------------------------------------------------------------
\* JSON documents of the backend protocol (frontend/src/api/types.ts).
\* A document is written "{" k "}"; the key k selects its content.
\*   e : {"error":"boom","code":"CONFIG_ERROR","details":"trace"}
\*   f : {"error":"denied"}
\*   s : {"success":true}
\*   p : {"type":"progress","percentage":50,"message":"half"}
\*   q : {"type":"progress","percentage":100,"message":"done"}
\*   o : a payload object without type, success or error
\* The response of get-config is written "{" "c" v "}":
\*   {"success":true,"config":{"SECRET":"v"}}   for the text v
\* Any other text is not valid JSON (JSON.parse throws).
\* ------------------------------------------------------------------------
DocKeys == {"e", "f", "s", "p", "q", "o"}

NoDoc == [valid |-> FALSE, key |-> "", type |-> Undefined, percentage |-> 0,
          message |-> Undefined, success |-> FALSE,
          error |-> Undefined, code |-> Undefined, details |-> Undefined,
          config |-> Undefined]

DocOf(k) ==
    [NoDoc EXCEPT
       !.valid = TRUE,
       !.key = k,
       !.type = IF k \in {"p", "q"} THEN <<"progress">> ELSE Undefined,
       !.percentage = IF k = "p" THEN 50 ELSE IF k = "q" THEN 100 ELSE 0,
       !.message = IF k = "p" THEN <<"half">>
                   ELSE IF k = "q" THEN <<"done">> ELSE Undefined,
       !.success = (k = "s"),
       !.error = IF k = "e" THEN <<"boom">>
                 ELSE IF k = "f" THEN <<"denied">> ELSE Undefined,
       !.code = IF k = "e" THEN <<"CONFIG_ERROR">> ELSE Undefined,
       !.details = IF k = "e" THEN <<"trace">> ELSE Undefined]

\* JSON.parse: surrounding whitespace is allowed, anything else must be
\* exactly one document
JSONparse(s) ==
    LET t == Trim(s)
    IN  IF Len(t) = 3 /\ t[1] = "{" /\ t[3] = "}" /\ t[2] \in DocKeys
        THEN DocOf(t[2])
        ELSE IF /\ Len(t) >= 3 /\ t[1] = "{" /\ t[2] = "c" /\ t[Len(t)] = "}"
                /\ \A n \in 3..(Len(t) - 1) : t[n] \notin {"{", "}", NL}
        THEN [NoDoc EXCEPT !.valid = TRUE, !.key = "c", !.success = TRUE,
                           !.config = SubSeq(t, 3, Len(t) - 1)]
        ELSE NoDoc

Truthy(v) == v # Undefined /\ v # <<>>

\* ------------------------------------------------------------------------
\* Settlement calls: what resolve(...) / reject(new ContainerAppsError(...))
\* was called with
\* ------------------------------------------------------------------------
Resolved(payload) ==
    [k |-> "resolve", payload |-> payload,
     message |-> Undefined, code |-> Undefined, details |-> Undefined]

ContainerAppsError(message, code, details) ==
    [k |-> "reject", payload |-> "",
     message |-> message, code |-> code, details |-> details]

\* ========================================================================
\* Part 1: Command Gateway
\* ========================================================================
VARIABLES
    call,      \* per invocation: the variables captured by the promise executor
    proc,      \* per invocation: the spawned process ("none", "running", "ended")
    pending,   \* per invocation: text the process has still to write
    emitted,   \* per invocation: text delivered to the stream callback so far
    first,     \* per invocation: which of timer / done / fail was delivered first
    failArg    \* per invocation: the (error, data) pair proc.fail was called with

gwVars == <<call, proc, pending, emitted, first, failArg>>

Kinds == {"exec", "install", "remove"}

IdleCall ==
    [kind |-> "idle", timeout |-> 0, onProgress |-> FALSE, stdout |-> <<>>,
     timerArmed |-> FALSE, settled |-> FALSE, calls |-> <<>>,
     progress |-> <<>>, closeReq |-> "no"]

\* new Promise((resolve, reject) => { let stdout = ''; let timeoutId = null;
\* let settled = false; cockpit.spawn(...); if (timeout > 0) setTimeout(...) })
NewCall(kind, timeout, onProgress) ==
    [IdleCall EXCEPT
       !.kind = kind,
       !.timeout = timeout,
       !.onProgress = onProgress,
       !.timerArmed = (kind = "exec" /\ timeout > 0)]

\* variant: one guard shared by all invocations
GuardShared(i) == 1

\* `let settled = false` is declared inside the promise executor: every
\* invocation owns its guard
GuardOf(i) == i

Load(i) == [call[i] EXCEPT !.settled = call[GuardOf(i)].settled]

Store(i, c) ==
    [call EXCEPT ![i] = [c EXCEPT !.settled = call[i].settled],
                 ![GuardOf(i)].settled = c.settled]

Settle(c, outcome) == [c EXCEPT !.calls = Append(@, outcome)]

\* ---- executeCommand ----------------------------------------------------
TimeoutError(timeout) ==
    ContainerAppsError(<<"Command timed out after ", ToString(timeout), "ms">>,
                       <<"TIMEOUT">>, Undefined)

\* variant: the timer closes the process without taking the guard
OnTimeoutNoSettle(c) ==
    [c EXCEPT !.timerArmed = FALSE, !.closeReq = "requested"]

\* setTimeout(() => { if (!settled) { settled = true; proc.close(cb) } })
OnTimeout(c) ==
    IF ~c.settled
    THEN [c EXCEPT !.timerArmed = FALSE, !.settled = TRUE,
                   !.closeReq = "requested"]
    ELSE [c EXCEPT !.timerArmed = FALSE]

\* the callback handed to proc.close: reject(TIMEOUT)
OnClose(c) ==
    [Settle(c, TimeoutError(c.timeout)) EXCEPT !.closeReq = "closed"]

\* variant: an error envelope on stdout is resolved like any payload
ExecDoneOutcomeNoEnvelope(stdout) ==
    LET parsed == JSONparse(stdout)
    IN  IF ~parsed.valid
        THEN ContainerAppsError(<<"Failed to parse backend response">>,
                                <<"PARSE_ERROR">>, stdout)
        ELSE Resolved(parsed.key)

\* proc.done of executeCommand: the outcome of parsing stdout
ExecDoneOutcome(stdout) ==
    LET parsed == JSONparse(stdout)
    IN  IF ~parsed.valid
        THEN ContainerAppsError(<<"Failed to parse backend response">>,
                                <<"PARSE_ERROR">>, stdout)
        ELSE IF Truthy(parsed.error)
        THEN ContainerAppsError(parsed.error, parsed.code, parsed.details)
        ELSE Resolved(parsed.key)

ExecDone(c) ==
    IF c.settled THEN c
    ELSE Settle([c EXCEPT !.settled = TRUE, !.timerArmed = FALSE],
                ExecDoneOutcome(c.stdout))

\* String(error || data || '')
ErrorStr(error, data) ==
    IF Truthy(error) THEN error ELSE IF Truthy(data) THEN data ELSE <<>>

FallbackMessage(kind) ==
    IF kind = "exec" THEN <<"Backend command failed">>
    ELSE IF kind = "install" THEN <<"Install command failed">>
    ELSE <<"Remove command failed">>

FallbackCode(kind) ==
    IF kind = "exec" THEN <<"COMMAND_FAILED">>
    ELSE IF kind = "install" THEN <<"INSTALL_FAILED">>
    ELSE <<"REMOVE_FAILED">>

\* variant: the failure payload is never parsed for an envelope
FailOutcomeRawOnly(kind, errorStr) ==
    ContainerAppsError(IF errorStr # <<>> THEN errorStr
                       ELSE FallbackMessage(kind),
                       FallbackCode(kind), Undefined)

\* the rejection built by proc.fail (all three functions share its shape)
FailOutcome(kind, errorStr) ==
    LET parsed == JSONparse(errorStr)
    IN  IF parsed.valid /\ Truthy(parsed.error)
        THEN ContainerAppsError(parsed.error, parsed.code, parsed.details)
        ELSE ContainerAppsError(IF errorStr # <<>> THEN errorStr
                                ELSE FallbackMessage(kind),
                                FallbackCode(kind), Undefined)

OnFail(c, error, data) ==
    IF c.settled THEN c
    ELSE Settle([c EXCEPT !.settled = TRUE, !.timerArmed = FALSE],
                FailOutcome(c.kind, ErrorStr(error, data)))

\* ---- installPackage / removePackage ------------------------------------
\* variant: a line settles the promise again although it is settled
ProcessLineNoGuard(c, line) ==
    IF Trim(line) = <<>> THEN c
    ELSE LET parsed == JSONparse(line)
         IN  IF ~parsed.valid THEN c
             ELSE LET c1 == IF parsed.type = <<"progress">> /\ c.onProgress
                            THEN [c EXCEPT !.progress =
                                     Append(@, <<parsed.percentage, parsed.message>>)]
                            ELSE c
                      c2 == IF parsed.success
                            THEN Settle([c1 EXCEPT !.settled = TRUE], Resolved(""))
                            ELSE c1
                  IN  IF Truthy(parsed.error)
                      THEN Settle([c2 EXCEPT !.settled = TRUE],
                                  ContainerAppsError(parsed.error, parsed.code,
                                                     parsed.details))
                      ELSE c2

\* the body of `for (const line of lines)` for one line
ProcessLine(c, line) ==
    IF Trim(line) = <<>> THEN c
    ELSE LET parsed == JSONparse(line)
         IN  IF ~parsed.valid THEN c
             ELSE LET c1 == IF parsed.type = <<"progress">> /\ c.onProgress
                            THEN [c EXCEPT !.progress =
                                     Append(@, <<parsed.percentage, parsed.message>>)]
                            ELSE c
                      c2 == IF parsed.success /\ ~c1.settled
                            THEN Settle([c1 EXCEPT !.settled = TRUE], Resolved(""))
                            ELSE c1
                  IN  IF Truthy(parsed.error) /\ ~c2.settled
                      THEN Settle([c2 EXCEPT !.settled = TRUE],
                                  ContainerAppsError(parsed.error, parsed.code,
                                                     parsed.details))
                      ELSE c2

RECURSIVE ProcessLines(_, _)
ProcessLines(c, lines) ==
    IF lines = <<>> THEN c
    ELSE ProcessLines(ProcessLine(c, Head(lines)), Tail(lines))

\* variant: the unfinished last line of a chunk is dropped, not buffered
StreamLinesDropPartial(c, data) ==
    LET lines == SplitNL(c.stdout \o data)
    IN  ProcessLines([c EXCEPT !.stdout = <<>>], lines)

\* proc.stream of installPackage / removePackage
StreamLines(c, data) ==
    LET lines == SplitNL(c.stdout \o data)
    IN  ProcessLines([c EXCEPT !.stdout = lines[Len(lines)]],
                     SubSeq(lines, 1, Len(lines) - 1))

\* proc.stream
OnStream(c, data) ==
    IF c.kind = "exec" THEN [c EXCEPT !.stdout = @ \o data]
    ELSE StreamLines(c, data)

\* variant: the text left in the line buffer is parsed at completion
StreamDoneFlushBuffer(c) ==
    LET flushed == ProcessLine(c, c.stdout)
    IN  IF ~flushed.settled
        THEN Settle([flushed EXCEPT !.settled = TRUE], Resolved(""))
        ELSE flushed

\* proc.done of installPackage / removePackage
StreamDone(c) ==
    IF ~c.settled THEN Settle([c EXCEPT !.settled = TRUE], Resolved(""))
    ELSE c

OnDone(c) == IF c.kind = "exec" THEN ExecDone(c) ELSE StreamDone(c)

\* ---- what the backend process can write --------------------------------
Pieces ==
    { <<"{", "p", "}", NL>>, <<"{", "q", "}", NL>>, <<"{", "s", "}", NL>>,
      <<"{", "e", "}", NL>>, <<"x", NL>>, <<NL>>,
      <<"x", NL, "{", "p", "}", NL>>,
      <<"{", "o", "}">>, <<"{", "s", "}">>, <<"{", "e", "}">> }

RECURSIVE TextsUpTo(_)
TextsUpTo(n) ==
    IF n = 0 THEN {<<>>}
    ELSE LET shorter == TextsUpTo(n - 1)
         IN  shorter \cup {t \o pc : t \in shorter, pc \in Pieces}

\* outputs of one process observed alone
RichTexts == TextsUpTo(MaxPieces)

\* outputs used when several processes run together
ConcTexts == { <<"{", "o", "}">>, <<"{", "e", "}", NL>> }

\* the (error, data) pairs handed to proc.fail
FailErrors == { <<>>, <<"x">>, <<"{", "e", "}">>, <<"{", "f", "}">>,
                <<"{", "o", "}">> }
FailData == { <<>>, <<"y">> }
ConcFailErrors == { <<"{", "f", "}">> }

Timeouts == {0, DefaultTimeout}

\* ---- actions -------------------------------------------------------------
GwInit ==
    /\ call = [i \in Invs |-> IdleCall]
    /\ proc = [i \in Invs |-> "none"]
    /\ pending = [i \in Invs |-> <<>>]
    /\ emitted = [i \in Invs |-> <<>>]
    /\ first = [i \in Invs |-> "none"]
    /\ failArg = [i \in Invs |-> <<>>]

\* the calls a client can make, with the output the process will write
Requests(texts) ==
    { r \in [kind : Kinds, timeout : Timeouts, onProgress : BOOLEAN, text : texts] :
        /\ r.kind = "exec" => ~r.onProgress
        /\ r.kind # "exec" => r.timeout = 0 }

ConcRequests ==
    { r \in Requests(ConcTexts) :
        /\ r.kind \in {"exec", "install"}
        /\ r.kind = "exec" => r.timeout > 0
        /\ r.kind = "install" => r.onProgress }

\* executeCommand(command, args, timeout) / installPackage / removePackage
\* is called: the promise executor runs and the process is spawned
Invoke(i, requests) ==
    /\ call[i].kind = "idle"
    /\ \E r \in requests :
          /\ call' = Store(i, NewCall(r.kind, r.timeout, r.onProgress))
          /\ pending' = [pending EXCEPT ![i] = r.text]
    /\ proc' = [proc EXCEPT ![i] = "running"]
    /\ UNCHANGED <<emitted, first, failArg>>

\* the stream callback is delivered with the next chunk of output
Stream(i) ==
    /\ proc[i] = "running"
    /\ \E n \in 1..Len(pending[i]) :
          LET data == SubSeq(pending[i], 1, n)
          IN  /\ call' = Store(i, OnStream(Load(i), data))
              /\ pending' = [pending EXCEPT ![i] = SubSeq(@, n + 1, Len(@))]
              /\ emitted' = [emitted EXCEPT ![i] = @ \o data]
    /\ UNCHANGED <<proc, first, failArg>>

\* the process exits with status 0 after writing all its output
Done(i) ==
    /\ proc[i] = "running"
    /\ pending[i] = <<>>
    /\ call' = Store(i, OnDone(Load(i)))
    /\ proc' = [proc EXCEPT ![i] = "ended"]
    /\ first' = [first EXCEPT ![i] = IF @ = "none" THEN "done" ELSE @]
    /\ UNCHANGED <<pending, emitted, failArg>>

\* the process fails (non-zero exit, transport failure, or closed)
Fail(i, errors) ==
    /\ proc[i] = "running"
    /\ \E error \in errors, data \in FailData :
          /\ call' = Store(i, OnFail(Load(i), error, data))
          /\ failArg' = [failArg EXCEPT ![i] = <<error, data>>]
    /\ proc' = [proc EXCEPT ![i] = "ended"]
    /\ first' = [first EXCEPT ![i] = IF @ = "none" THEN "fail" ELSE @]
    /\ UNCHANGED <<pending, emitted>>

\* the timeout timer fires
Timer(i) ==
    /\ call[i].timerArmed
    /\ call' = Store(i, OnTimeout(Load(i)))
    /\ first' = [first EXCEPT ![i] = IF @ = "none" THEN "timer" ELSE @]
    /\ UNCHANGED <<proc, pending, emitted, failArg>>

\* the callback handed to proc.close is run
CloseCb(i) ==
    /\ call[i].closeReq = "requested"
    /\ call' = Store(i, OnClose(Load(i)))
    /\ UNCHANGED <<proc, pending, emitted, first, failArg>>

\* ========================================================================
\* Part 2: argument encoding (listCategories, listPackagesByCategory,
\* filterPackages)
\* ========================================================================
VARIABLES
    params,    \* the parameters the caller passes
    argv       \* the argument vector handed to cockpit.spawn

argVars == <<params, argv>>

Program == <<"cockpit-container-apps">>

\* `--key=${value}`: one token
KeyValue(key, value) == <<key>> \o value

\* listCategories(storeId?)
ListCategoriesArgs(storeId) ==
    IF Truthy(storeId) THEN <<KeyValue("--store=", storeId)>> ELSE <<>>

\* listPackagesByCategory(categoryId, storeId?)
ListPackagesByCategoryArgs(categoryId, storeId) ==
    <<categoryId>> \o
    (IF Truthy(storeId) THEN <<KeyValue("--store=", storeId)>> ELSE <<>>)

\* params.limit.toString()
NumberToString(n) == <<ToString(n)>>

\* variant: args.push('--store', params.store_id), key and value as two tokens
FilterPackagesArgsTwoTokens(p) ==
    (IF Truthy(p.store_id) THEN <<<<"--store">>, p.store_id>> ELSE <<>>) \o
    (IF Truthy(p.repository_id) THEN <<<<"--repo">>, p.repository_id>> ELSE <<>>) \o
    (IF Truthy(p.category_id) THEN <<<<"--category">>, p.category_id>> ELSE <<>>) \o
    (IF Truthy(p.tab) THEN <<<<"--tab">>, p.tab>> ELSE <<>>) \o
    (IF Truthy(p.search_query) THEN <<<<"--search">>, p.search_query>> ELSE <<>>) \o
    (IF p.limit # <<>> THEN <<<<"--limit">>, NumberToString(p.limit[1])>> ELSE <<>>)

\* filterPackages(params)
FilterPackagesArgs(p) ==
    (IF Truthy(p.store_id) THEN <<KeyValue("--store=", p.store_id)>> ELSE <<>>) \o
    (IF Truthy(p.repository_id) THEN <<KeyValue("--repo=", p.repository_id)>> ELSE <<>>) \o
    (IF Truthy(p.category_id) THEN <<KeyValue("--category=", p.category_id)>> ELSE <<>>) \o
    (IF Truthy(p.tab) THEN <<KeyValue("--tab=", p.tab)>> ELSE <<>>) \o
    (IF Truthy(p.search_query) THEN <<KeyValue("--search=", p.search_query)>> ELSE <<>>) \o
    (IF p.limit # <<>>
     THEN <<KeyValue("--limit=", NumberToString(p.limit[1]))>> ELSE <<>>)

\* parameter values a caller can pass; an optional number is <<>> or <<n>>
IdValues == { Undefined, <<>>, <<"m">>, <<"-", "x">> }
TabValues == { Undefined, <<"installed">>, <<"upgradable">> }
LimitValues == { <<>>, <<0>>, <<50>> }

ParamSets ==
    [fn : {"none"}, store_id : IdValues, repository_id : IdValues,
     category_id : IdValues, tab : TabValues, search_query : IdValues,
     limit : LimitValues]

ArgIdle ==
    /\ params = [fn |-> "none", store_id |-> Undefined,
                 repository_id |-> Undefined, category_id |-> Undefined,
                 tab |-> Undefined, search_query |-> Undefined, limit |-> <<>>]
    /\ argv = <<>>

ArgInit ==
    /\ params \in ParamSets
    /\ argv = <<>>

\* executeCommand(command, args): the promise executor of a request/response
\* command with the default timeout
ExecuteCommand(i, command, args) ==
    /\ call[i].kind = "idle"
    /\ argv' = <<Program, <<command>>>> \o args
    /\ call' = Store(i, NewCall("exec", DefaultTimeout, FALSE))
    /\ proc' = [proc EXCEPT ![i] = "running"]
    /\ \E t \in ConcTexts : pending' = [pending EXCEPT ![i] = t]
    /\ UNCHANGED <<emitted, first, failArg>>

ListCategories ==
    /\ params' = [params EXCEPT !.fn = "listCategories"]
    /\ ExecuteCommand(1, "list-categories", ListCategoriesArgs(params.store_id))

ListPackagesByCategory ==
    /\ params.category_id # Undefined
    /\ params' = [params EXCEPT !.fn = "listPackagesByCategory"]
    /\ ExecuteCommand(1, "list-packages-by-category",
                      ListPackagesByCategoryArgs(params.category_id,
                                                 params.store_id))

FilterPackages ==
    /\ params' = [params EXCEPT !.fn = "filterPackages"]
    /\ ExecuteCommand(1, "filter-packages", FilterPackagesArgs(params))

\* ========================================================================
\* Part 3: ConfigForm engine (frontend/src/components/ConfigForm.tsx)
\* ========================================================================
\* A ConfigValues object is a function from its keys to texts.  An optional
\* number (min, max) is <<>> or <<n>>; an optional text is Undefined or the
\* text; validateField's null is the empty text.
VARIABLES
    schema,            \* prop: the ConfigSchema
    config,            \* prop: the last loaded ConfigValues
    formValues,        \* state: the values shown in the form
    validationErrors,  \* state: field id -> message
    lastSave,          \* the argument of the last onSave call, if any
    lastOp,            \* the last operation on the form
    vField,            \* validateField: its field argument
    vValue,            \* validateField: its value argument
    vResult            \* validateField: its result

formVars == <<schema, config, formValues, validationErrors, lastSave, lastOp>>
valVars == <<vField, vValue, vResult>>

MaxValueLen == 3     \* length of the values handed to validateField

EmptyValues == [k \in {} |-> <<>>]
Put(m, k, v) == [x \in DOMAIN m \cup {k} |-> IF x = k THEN v ELSE m[x]]
Del(m, k) == [x \in DOMAIN m \ {k} |-> m[x]]

\* schema.groups.forEach(group => group.fields.forEach(...)): visiting order
RECURSIVE FieldsOf(_)
FieldsOf(groups) ==
    IF groups = <<>> THEN <<>>
    ELSE Head(groups).fields \o FieldsOf(Tail(groups))

FieldIds(sch) == {FieldsOf(sch.groups)[n].id : n \in 1..Len(FieldsOf(sch.groups))}

\* values = {...config}; for each field:
\*   if (values[id] === undefined && field.default !== undefined) values[id] = default
RECURSIVE ApplyDefaults(_, _)
ApplyDefaults(values, fields) ==
    IF fields = <<>> THEN values
    ELSE LET f == Head(fields)
         IN  ApplyDefaults(IF f.id \notin DOMAIN values /\ f.default # Undefined
                           THEN Put(values, f.id, f.default)
                           ELSE values,
                           Tail(fields))

\* variant: the same loop without the `values[id] === undefined` test
RECURSIVE OverwriteWithDefaults(_, _)
OverwriteWithDefaults(values, fields) ==
    IF fields = <<>> THEN values
    ELSE LET f == Head(fields)
         IN  OverwriteWithDefaults(IF f.default # Undefined
                                   THEN Put(values, f.id, f.default)
                                   ELSE values,
                                   Tail(fields))

MergeDefaultsOverwrite(cfg, sch) == OverwriteWithDefaults(cfg, FieldsOf(sch.groups))

\* the initial-values computation (useState initialiser, useEffect, handleCancel)
MergeDefaults(cfg, sch) == ApplyDefaults(cfg, FieldsOf(sch.groups))

\* ---- validateField -------------------------------------------------------
Digits == {"0", "1", "2", "3", "4", "5", "6", "7", "8", "9"}
DigitValue(c) ==
    CASE c = "0" -> 0 [] c = "1" -> 1 [] c = "2" -> 2 [] c = "3" -> 3
      [] c = "4" -> 4 [] c = "5" -> 5 [] c = "6" -> 6 [] c = "7" -> 7
      [] c = "8" -> 8 [] c = "9" -> 9

\* /^-?\d+$/.test(value)
MatchesStrictInteger(v) ==
    LET d == IF v # <<>> /\ Head(v) = "-" THEN Tail(v) ELSE v
    IN  /\ d # <<>>
        /\ \A n \in 1..Len(d) : d[n] \in Digits

\* parseInt(value, 10): leading whitespace, an optional sign, then the
\* longest run of digits; <<>> is NaN
RECURSIVE DigitRun(_, _, _)
DigitRun(s, acc, seen) ==
    IF s = <<>> \/ Head(s) \notin Digits
    THEN IF seen THEN <<acc>> ELSE <<>>
    ELSE DigitRun(Tail(s), 10 * acc + DigitValue(Head(s)), TRUE)

ParseInt(v) ==
    LET t == TrimLeft(v)
        neg == t # <<>> /\ Head(t) = "-"
        body == IF t # <<>> /\ Head(t) \in {"-", "+"} THEN Tail(t) ELSE t
        run == DigitRun(body, 0, FALSE)
    IN  IF run = <<>> THEN <<>> ELSE IF neg THEN <<0 - run[1]>> ELSE run

\* value.includes('../')
IncludesTraversal(v) ==
    \E n \in 1..(Len(v) - 2) : v[n] = "." /\ v[n + 1] = "." /\ v[n + 2] = "/"

\* validValues.join(', ')
RECURSIVE JoinComma(_)
JoinComma(texts) ==
    IF texts = <<>> THEN <<>>
    ELSE IF Len(texts) = 1 THEN Head(texts)
    ELSE Head(texts) \o <<", ">> \o JoinComma(Tail(texts))

NoError == <<>>

TypeError(field, value) ==
    IF field.type = "integer" /\ value # <<>> /\ ~MatchesStrictInteger(value)
    THEN <<"Must be a valid integer">>
    ELSE IF field.type = "integer" /\ value # <<>> /\ field.min # <<>>
            /\ ParseInt(value)[1] < field.min[1]
    THEN <<"Value must be at least ", ToString(field.min[1])>>
    ELSE IF field.type = "integer" /\ value # <<>> /\ field.max # <<>>
            /\ ParseInt(value)[1] > field.max[1]
    THEN <<"Value must be at most ", ToString(field.max[1])>>
    ELSE IF field.type = "path" /\ value # <<>> /\ IncludesTraversal(value)
    THEN <<"Invalid path: directory traversal detected">>
    ELSE IF field.type = "enum" /\ value # <<>> /\ field.options # Undefined
            /\ \A n \in 1..Len(field.options) : field.options[n] # value
    THEN <<"Value must be one of: ">> \o JoinComma(field.options)
    ELSE NoError

\* variant: integer validation by parseInt alone, a numeric prefix is enough
ValidateFieldPartialParse(field, value) ==
    IF field.required /\ (value = <<>> \/ Trim(value) = <<>>)
    THEN <<"This field is required">>
    ELSE IF field.type = "integer" /\ value # <<>> /\ ParseInt(value) = <<>>
    THEN <<"Must be a valid integer">>
    ELSE IF field.type = "integer" /\ value # <<>> /\ field.min # <<>>
            /\ ParseInt(value)[1] < field.min[1]
    THEN <<"Value must be at least ", ToString(field.min[1])>>
    ELSE IF field.type = "integer" /\ value # <<>> /\ field.max # <<>>
            /\ ParseInt(value)[1] > field.max[1]
    THEN <<"Value must be at most ", ToString(field.max[1])>>
    ELSE IF field.type = "integer" THEN NoError
    ELSE TypeError(field, value)

\* variant: the required check skipped
ValidateFieldNoRequired(field, value) == TypeError(field, value)

\* validateField(field, value)
ValidateField(field, value) ==
    IF field.required /\ (value = <<>> \/ Trim(value) = <<>>)
    THEN <<"This field is required">>
    ELSE TypeError(field, value)

\* const value = formValues[field.id] || ''
ValueOf(values, id) == IF id \in DOMAIN values THEN values[id] ELSE <<>>

\* validateForm(): errors[field.id] = error for every field with an error
RECURSIVE CollectErrors(_, _, _)
CollectErrors(errors, values, fields) ==
    IF fields = <<>> THEN errors
    ELSE LET f == Head(fields)
             error == ValidateField(f, ValueOf(values, f.id))
         IN  CollectErrors(IF error # NoError THEN Put(errors, f.id, error)
                           ELSE errors,
                           values, Tail(fields))

ValidateForm(sch, values) == CollectErrors(EmptyValues, values, FieldsOf(sch.groups))

\* ---- inputs ---------------------------------------------------------------
Field(id, type, required, default, min, max, options) ==
    [id |-> id, type |-> type, required |-> required, default |-> default,
     min |-> min, max |-> max, options |-> options]

ServerName == Field("SERVER_NAME", "string", TRUE, <<"M">>, <<>>, <<>>, Undefined)
Port == Field("PORT", "integer", FALSE, <<"3", "0", "0", "0">>, <<1>>, <<65535>>, Undefined)
LogLevel == Field("LOG_LEVEL", "enum", FALSE, <<"i">>, <<>>, <<>>, <<<<"d">>, <<"i">>>>)
DataDir == Field("DATA_DIR", "path", TRUE, Undefined, <<>>, <<>>, Undefined)
Secret == Field("SECRET", "password", FALSE, Undefined, <<>>, <<>>, Undefined)

Group(id, fields) == [id |-> id, fields |-> fields]

Schemas ==
    { [version |-> "1.0", groups |-> <<Group("general", <<ServerName, Port>>)>>],
      [version |-> "1.0", groups |-> <<Group("general", <<ServerName>>),
                                       Group("advanced", <<LogLevel>>)>>],
      [version |-> "1.0", groups |-> <<Group("storage", <<DataDir, Secret>>)>>] }

\* what get-config can return: entries for schema fields and for other keys
ConfigKeys == {"SERVER_NAME", "PORT", "LOG_LEVEL", "DATA_DIR", "SECRET", "EXTRA"}

Configs ==
    { EmptyValues,
      Put(EmptyValues, "PORT", <<"8", "0">>),
      Put(Put(EmptyValues, "SERVER_NAME", <<"T">>), "EXTRA", <<"T">>),
      Put(Put(EmptyValues, "SERVER_NAME", <<>>), "LOG_LEVEL", <<"d">>),
      Put(EmptyValues, "DATA_DIR", <<"d">>) }

\* what the user can type into a field
EditValues ==
    { <<>>, <<" ">>, <<"d">>, <<"7", "0", "0", "0", "0">>,
      <<"1", "2", "3", "a">>, <<".", ".", "/", "e">> }

NoSave == [called |-> FALSE, arg |-> EmptyValues]

FormIdle ==
    /\ schema = [version |-> "", groups |-> <<>>]
    /\ config = EmptyValues
    /\ formValues = EmptyValues
    /\ validationErrors = EmptyValues
    /\ lastSave = NoSave
    /\ lastOp = "none"

\* the form is mounted with its props: useState(() => merge(config, schema))
FormInit ==
    /\ schema \in Schemas
    /\ config \in Configs
    /\ formValues = MergeDefaults(config, schema)
    /\ validationErrors = EmptyValues
    /\ lastSave = NoSave
    /\ lastOp = "init"

\* handleFieldChange(id, value), called by the rendered field `id`
HandleFieldChange(id, value) ==
    /\ id \in FieldIds(schema)
    /\ formValues' = Put(formValues, id, value)
    /\ validationErrors' = IF id \in DOMAIN validationErrors
                           THEN Del(validationErrors, id)
                           ELSE validationErrors
    /\ lastOp' = "edit"
    /\ UNCHANGED <<schema, config, lastSave>>

\* variant: onSave is called without looking at the validation result
HandleSaveUnvalidated ==
    /\ lastSave' = [called |-> TRUE, arg |-> formValues]
    /\ lastOp' = "save"
    /\ UNCHANGED <<schema, config, formValues, validationErrors>>

\* handleSave()
HandleSave ==
    LET errors == ValidateForm(schema, formValues)
    IN  /\ IF DOMAIN errors # {}
           THEN /\ validationErrors' = errors
                /\ UNCHANGED lastSave
           ELSE /\ lastSave' = [called |-> TRUE, arg |-> formValues]
                /\ UNCHANGED validationErrors
        /\ lastOp' = "save"
        /\ UNCHANGED <<schema, config, formValues>>

\* variant: cancel clears the errors but keeps the edited values
HandleCancelKeepEdits ==
    /\ validationErrors' = EmptyValues
    /\ lastOp' = "cancel"
    /\ UNCHANGED <<schema, config, formValues, lastSave>>

\* handleCancel()
HandleCancel ==
    /\ formValues' = MergeDefaults(config, schema)
    /\ validationErrors' = EmptyValues
    /\ lastOp' = "cancel"
    /\ UNCHANGED <<schema, config, lastSave>>

\* the config prop changes: useEffect(() => setFormValues(merge), [config, schema])
ConfigLoaded(cfg) ==
    /\ cfg # config
    /\ config' = cfg
    /\ formValues' = MergeDefaults(cfg, schema)
    /\ lastOp' = "load"
    /\ UNCHANGED <<schema, validationErrors, lastSave>>

\* ---- validateField on its own -------------------------------------------
ValueAlphabet == {"-", "1", "5", "a", " ", ".", "/"}

RECURSIVE TextsOfLength(_)
TextsOfLength(n) ==
    IF n = 0 THEN {<<>>}
    ELSE {Append(t, c) : t \in TextsOfLength(n - 1), c \in ValueAlphabet}

ValueTexts == UNION {TextsOfLength(n) : n \in 0..MaxValueLen}

BoundPairs == { <<<<>>, <<>>>>, <<<<5>>, <<>>>>, <<<<>>, <<50>>>>, <<<<5>>, <<50>>>> }

FieldPool ==
    { Field("F", "integer", r, Undefined, b[1], b[2], Undefined) :
          r \in BOOLEAN, b \in BoundPairs }
    \cup { Field("F", t, r, Undefined, <<>>, <<>>, Undefined) :
               t \in {"string", "password", "boolean", "path"}, r \in BOOLEAN }
    \cup { Field("F", "enum", r, Undefined, <<>>, <<>>, <<<<"a">>, <<"1", "5">>>>) :
               r \in BOOLEAN }

Pending == <<"<pending>">>

ValIdle ==
    /\ vField = ServerName
    /\ vValue = <<>>
    /\ vResult = Pending

ValInit ==
    /\ vField \in FieldPool
    /\ vValue \in ValueTexts
    /\ vResult = Pending

Validate ==
    /\ vResult = Pending
    /\ vResult' = ValidateField(vField, vValue)
    /\ UNCHANGED <<vField, vValue>>

\* ========================================================================
\* Part 4: the app details view (AppDetails) and its configuration form
\* ========================================================================
VARIABLES
    pkg,              \* prop: the package displayed (name, installed)
    isLoadingConfig,  \* state
    configError,      \* state: string | null
    isSavingConfig,   \* state
    saveError,        \* state: string | null
    saveWarning,      \* state: string | null
    loads,            \* loadConfiguration calls in flight: the pkg.name of each
    saving,           \* the handleConfigSave call in flight, if any
    lastCommand       \* the backend command issued last

detVars == <<pkg, isLoadingConfig, configError, isSavingConfig, saveError,
             saveWarning, loads, saving, lastCommand>>

Null == <<"<null>">>

\* useState<ConfigSchema | null>(null)
NoSchema == [version |-> "<null>", groups |-> <<>>]

\* ---- the responses of the backend, as executeCommand hands them on -------
Response(success, hasSchema, sch, hasConfig, cfg, error, details, warning) ==
    [success |-> success, hasSchema |-> hasSchema, schema |-> sch,
     hasConfig |-> hasConfig, config |-> cfg, error |-> error,
     details |-> details, warning |-> warning]

\* executeCommand resolved with a response
Returned(response) ==
    [rejected |-> FALSE, response |-> response,
     error |-> ContainerAppsError(Undefined, Undefined, Undefined)]

\* executeCommand rejected
Rejected(error) ==
    [rejected |-> TRUE, error |-> error,
     response |-> Response(FALSE, FALSE, NoSchema, FALSE, EmptyValues,
                           Undefined, Undefined, Undefined)]

Value(v) == [threw |-> FALSE, value |-> v,
             error |-> ContainerAppsError(Undefined, Undefined, Undefined)]

Thrown(e, v) == [threw |-> TRUE, value |-> v, error |-> e]

\* response.error || fallback
OrElse(text, fallback) == IF Truthy(text) THEN text ELSE fallback

\* getConfigSchema(packageName), from the outcome of its command
GetConfigSchema(o) ==
    IF o.rejected THEN Thrown(o.error, NoSchema)
    ELSE IF ~o.response.success \/ ~o.response.hasSchema
    THEN Thrown(ContainerAppsError(
                    OrElse(o.response.error, <<"Failed to load configuration schema">>),
                    <<"SCHEMA_ERROR">>, Undefined), NoSchema)
    ELSE Value(o.response.schema)

\* getConfig(packageName), from the outcome of its command
GetConfig(o) ==
    IF o.rejected THEN Thrown(o.error, EmptyValues)
    ELSE IF ~o.response.success \/ ~o.response.hasConfig
    THEN Thrown(ContainerAppsError(
                    OrElse(o.response.error, <<"Failed to load configuration">>),
                    <<"CONFIG_ERROR">>, Undefined), EmptyValues)
    ELSE Value(o.response.config)

\* setConfig(packageName, config), from the outcome of its command: the
\* warning of the response, if any
SetConfig(o) ==
    IF o.rejected THEN Thrown(o.error, Undefined)
    ELSE IF ~o.response.success
    THEN Thrown(ContainerAppsError(
                    OrElse(o.response.error, <<"Failed to save configuration">>),
                    <<"CONFIG_SAVE_ERROR">>, o.response.details), Undefined)
    ELSE Value(o.response.warning)

\* formatErrorMessage(error) for a ContainerAppsError
FormatErrorMessage(e) ==
    IF Truthy(e.details) THEN e.message \o <<": ">> \o e.details ELSE e.message

\* ---- rendering ------------------------------------------------------------
\* {pkg.installed && ... {configSchema && !isLoadingConfig && <ConfigForm/>}}
Shown(p, sch, loading) == p.installed /\ sch # NoSchema /\ ~loading

FormShown == Shown(pkg, schema, isLoadingConfig)

\* the form's own state after a render of AppDetails: unmounted, mounted
\* anew (useState initialisers), props changed (useEffect), or untouched
FormAfterRender(shownAfter, propsChanged) ==
    IF ~shownAfter
    THEN /\ formValues' = EmptyValues
         /\ validationErrors' = EmptyValues
         /\ lastOp' = "none"
    ELSE IF ~FormShown
    THEN /\ formValues' = MergeDefaults(config', schema')
         /\ validationErrors' = EmptyValues
         /\ lastOp' = "init"
    ELSE IF propsChanged
    THEN /\ formValues' = MergeDefaults(config', schema')
         /\ lastOp' = "load"
         /\ UNCHANGED validationErrors
    ELSE UNCHANGED <<formValues, validationErrors, lastOp>>

NoSaving == [phase |-> "none", name |-> "", submitted |-> EmptyValues,
             warning |-> Undefined]

\* ---- inputs ---------------------------------------------------------------
DetailsSchemas ==
    { [version |-> "1.0", groups |-> <<Group("general", <<ServerName, Port>>)>>] }

DetailsConfigs ==
    { EmptyValues,
      Put(EmptyValues, "PORT", <<"8", "0">>),
      Put(Put(EmptyValues, "SERVER_NAME", <<"T">>), "EXTRA", <<"T">>) }

DetailsEdits == { <<>>, <<"d">>, <<"7", "0", "0", "0", "0">> }

Ok(hasSchema, sch, hasConfig, cfg, warning) ==
    Returned(Response(TRUE, hasSchema, sch, hasConfig, cfg, Undefined,
                      Undefined, warning))

NotOk(error, details) ==
    Returned(Response(FALSE, FALSE, NoSchema, FALSE, EmptyValues, error,
                      details, Undefined))

GatewayError == ContainerAppsError(<<"E">>, <<"C">>, <<"d">>)

SchemaOutcomes ==
    {Ok(TRUE, sch, FALSE, EmptyValues, Undefined) : sch \in DetailsSchemas}
    \cup {NotOk(Undefined, Undefined), Rejected(TimeoutError(DefaultTimeout))}

ConfigOutcomes ==
    {Ok(FALSE, NoSchema, TRUE, cfg, Undefined) : cfg \in DetailsConfigs}
    \cup {Ok(FALSE, NoSchema, FALSE, EmptyValues, Undefined),
          Rejected(GatewayError)}

SetOutcomes ==
    {Ok(FALSE, NoSchema, FALSE, EmptyValues, w) : w \in {Undefined, <<"w">>}}
    \cup {NotOk(<<"E">>, <<"d">>), NotOk(Undefined, Undefined),
          Rejected(TimeoutError(DefaultTimeout))}

\* ---- actions ----------------------------------------------------------------
NoPkg == [name |-> "", installed |-> FALSE]

DetIdle ==
    /\ pkg = NoPkg
    /\ isLoadingConfig = FALSE
    /\ configError = Null
    /\ isSavingConfig = FALSE
    /\ saveError = Null
    /\ saveWarning = Null
    /\ loads = <<>>
    /\ saving = NoSaving
    /\ lastCommand = "none"

\* AppDetails is mounted for a package: the useState initialisers, then the
\* effect on [pkg.installed, pkg.name], which starts loadConfiguration for
\* an installed package
DetInit ==
    /\ pkg \in [name : {"a"}, installed : BOOLEAN]
    /\ isLoadingConfig = pkg.installed
    /\ configError = Null
    /\ isSavingConfig = FALSE
    /\ saveError = Null
    /\ saveWarning = Null
    /\ loads = IF pkg.installed THEN <<pkg.name>> ELSE <<>>
    /\ saving = NoSaving
    /\ lastCommand = IF pkg.installed THEN "get-config-schema, get-config"
                     ELSE "none"
    /\ schema = NoSchema
    /\ config = EmptyValues
    /\ formValues = EmptyValues
    /\ validationErrors = EmptyValues
    /\ lastSave = NoSave
    /\ lastOp = "none"

RemoveAt(q, k) == SubSeq(q, 1, k - 1) \o SubSeq(q, k + 1, Len(q))

\* variant: a failed load is swallowed without a message
LoadSettledSilent(k, so, co, schemaFirst) ==
    LET sr == GetConfigSchema(so)
        cr == GetConfig(co)
    IN  /\ k \in 1..Len(loads)
        /\ loads' = RemoveAt(loads, k)
        /\ isLoadingConfig' = FALSE
        /\ IF ~sr.threw /\ ~cr.threw
           THEN schema' = sr.value /\ config' = cr.value
           ELSE schema' = NoSchema /\ UNCHANGED config
        /\ FormAfterRender(Shown(pkg, schema', FALSE), TRUE)
        /\ UNCHANGED <<pkg, configError, isSavingConfig, saveError, saveWarning,
                       saving, lastCommand, lastSave>>

\* loadConfiguration after its await: Promise.all settled with both results,
\* or rejected with the rejection that came first
LoadSettled(k, so, co, schemaFirst) ==
    LET sr == GetConfigSchema(so)
        cr == GetConfig(co)
        err == IF sr.threw /\ (~cr.threw \/ schemaFirst) THEN sr.error
               ELSE cr.error
    IN  /\ k \in 1..Len(loads)
        /\ loads' = RemoveAt(loads, k)
        /\ isLoadingConfig' = FALSE
        /\ IF ~sr.threw /\ ~cr.threw
           THEN /\ schema' = sr.value
                /\ config' = cr.value
                /\ UNCHANGED configError
           ELSE /\ configError' = FormatErrorMessage(err)
                /\ schema' = NoSchema
                /\ UNCHANGED config
        /\ FormAfterRender(Shown(pkg, schema', FALSE), TRUE)
        /\ UNCHANGED <<pkg, isSavingConfig, saveError, saveWarning, saving,
                       lastCommand, lastSave>>

MaxLoads == 2        \* loadConfiguration calls in flight together

DetailsPackageNames == {"a", "b"}

\* AppDetails is rendered with another pkg prop (another package, or the same
\* package with installed changed): the effect on [pkg.installed, pkg.name]
\* runs, starting loadConfiguration or clearing the configuration state
PkgChanged(p) ==
    /\ p # pkg
    /\ pkg' = p
    /\ configError' = Null
    /\ IF p.installed
       THEN /\ Len(loads) < MaxLoads
            /\ isLoadingConfig' = TRUE
            /\ loads' = Append(loads, p.name)
            /\ lastCommand' = "get-config-schema, get-config"
            /\ UNCHANGED <<schema, config>>
       ELSE /\ schema' = NoSchema
            /\ config' = EmptyValues
            /\ UNCHANGED <<isLoadingConfig, loads, lastCommand>>
    /\ FormAfterRender(Shown(p, schema', isLoadingConfig'), FALSE)
    /\ UNCHANGED <<isSavingConfig, saveError, saveWarning, saving, lastSave>>

\* a field of the rendered form is edited
DetailsFieldChange(id, value) ==
    /\ FormShown
    /\ HandleFieldChange(id, value)
    /\ UNCHANGED detVars

\* handleConfigSave(newConfig) up to its first await
HandleConfigSave(newConfig) ==
    /\ isSavingConfig' = TRUE
    /\ saveError' = Null
    /\ saveWarning' = Null
    /\ saving' = [phase |-> "set", name |-> pkg.name, submitted |-> newConfig,
                  warning |-> Undefined]
    /\ lastCommand' = "set-config"
    /\ UNCHANGED <<pkg, isLoadingConfig, configError, loads>>

\* the Save button (disabled while isSaving): handleSave, and through onSave
\* handleConfigSave
DetailsSave ==
    /\ FormShown
    /\ ~isSavingConfig
    /\ HandleSave
    /\ IF DOMAIN ValidateForm(schema, formValues) = {}
       THEN HandleConfigSave(formValues)
       ELSE UNCHANGED detVars

\* handleConfigCancel()
HandleConfigCancel ==
    /\ saveError' = Null
    /\ saveWarning' = Null
    /\ UNCHANGED <<pkg, isLoadingConfig, configError, isSavingConfig, loads,
                   saving, lastCommand>>

\* the Cancel button: handleCancel, and through onCancel handleConfigCancel
DetailsCancel ==
    /\ FormShown
    /\ HandleCancel
    /\ HandleConfigCancel

\* variant: a failed save puts the form back to the held config
SetConfigSettledReverting(o) ==
    LET r == SetConfig(o)
    IN  /\ saving.phase = "set"
        /\ IF r.threw
           THEN /\ saveError' = FormatErrorMessage(r.error)
                /\ isSavingConfig' = FALSE
                /\ saving' = NoSaving
                /\ formValues' = MergeDefaults(config, schema)
                /\ UNCHANGED lastCommand
           ELSE /\ saving' = [saving EXCEPT !.phase = "get", !.warning = r.value]
                /\ lastCommand' = "get-config"
                /\ UNCHANGED <<saveError, isSavingConfig, formValues>>
        /\ UNCHANGED <<pkg, isLoadingConfig, configError, saveWarning, loads,
                       schema, config, validationErrors, lastSave, lastOp>>

\* handleConfigSave after `await setConfig(...)`
SetConfigSettled(o) ==
    LET r == SetConfig(o)
    IN  /\ saving.phase = "set"
        /\ IF r.threw
           THEN /\ saveError' = FormatErrorMessage(r.error)
                /\ isSavingConfig' = FALSE
                /\ saving' = NoSaving
                /\ UNCHANGED lastCommand
           ELSE /\ saving' = [saving EXCEPT !.phase = "get", !.warning = r.value]
                /\ lastCommand' = "get-config"
                /\ UNCHANGED <<saveError, isSavingConfig>>
        /\ UNCHANGED <<pkg, isLoadingConfig, configError, saveWarning, loads,
                       formVars>>

\* handleConfigSave after `await getConfig(...)`
GetConfigSettled(o) ==
    LET r == GetConfig(o)
    IN  /\ saving.phase = "get"
        /\ saving' = NoSaving
        /\ isSavingConfig' = FALSE
        /\ UNCHANGED <<pkg, isLoadingConfig, configError, loads, lastCommand,
                       schema, lastSave>>
        /\ IF r.threw
           THEN /\ saveError' = FormatErrorMessage(r.error)
                /\ UNCHANGED <<saveWarning, config, formValues,
                               validationErrors, lastOp>>
           ELSE /\ config' = r.value
                /\ saveWarning' = IF Truthy(saving.warning) THEN saving.warning
                                  ELSE saveWarning
                /\ UNCHANGED saveError
                /\ FormAfterRender(FormShown, TRUE)

\* ---- get-config through the gateway ---------------------------------------
\* the value a password field holds on the backend
StoredSecret == <<"h", "2">>

SecretSchema == [version |-> "1.0", groups |-> <<Group("auth", <<Secret>>)>>]

\* what the get-config process can write: the response alone, the response
\* after a line of its standard error (spawn option err: 'out'), or the
\* response cut short
GetConfigTexts ==
    { <<"{", "c">> \o StoredSecret \o <<"}">>,
      <<"W", NL, "{", "c">> \o StoredSecret \o <<"}">>,
      <<"{", "c">> \o StoredSecret }

\* executeCommand<GetConfigResponse>('get-config', [packageName]) when the
\* process exits after writing stdout
ExecuteGetConfig(stdout) ==
    LET o == ExecDoneOutcome(stdout)
        parsed == JSONparse(stdout)
    IN  IF o.k = "reject" THEN Rejected(o)
        ELSE Ok(FALSE, NoSchema, parsed.config # Undefined,
                IF parsed.config # Undefined
                THEN Put(EmptyValues, "SECRET", parsed.config)
                ELSE EmptyValues,
                Undefined)

SecretSchemaOutcomes == { Ok(TRUE, SecretSchema, FALSE, EmptyValues, Undefined) }

SecretConfigOutcomes == { ExecuteGetConfig(t) : t \in GetConfigTexts }

SecretEdits == { <<>>, <<"p", "w">>, <<"q">> }

\* ========================================================================
\* Part 5: the package cache and its filters (AppContext)
\* ========================================================================
VARIABLES
    fPackages,   \* filterPackagesClientSide: its packages argument
    fFilter,     \* filterPackagesClientSide: its installFilter argument
    fQuery,      \* filterPackagesClientSide: its searchQuery argument
    fResult,     \* filterPackagesClientSide: its result
    fDone        \* whether the call was made

filterVars == <<fPackages, fFilter, fQuery, fResult, fDone>>

MaxPackages == 2     \* length of the package lists handed to the filter

InstallFilters == {"all", "available", "installed"}

\* Package (the fields the frontend reads)
Package(name, summary, installed, categories) ==
    [name |-> name, summary |-> summary, installed |-> installed,
     categories |-> categories]

\* String.prototype.toLowerCase, on the letters of the model
LowerOf(c) == IF c = "A" THEN "a" ELSE IF c = "B" THEN "b" ELSE c

ToLowerCase(t) == [n \in 1..Len(t) |-> LowerOf(t[n])]

\* String.prototype.includes
Includes(t, q) ==
    \E n \in 0..(Len(t) - Len(q)) : SubSeq(t, n + 1, n + Len(q)) = q

\* variant: the query is compared as typed, letter case and padding kept
FilterPackagesCaseSensitive(packages, installFilter, searchQuery) ==
    LET byStatus ==
            IF installFilter = "available"
            THEN SelectSeq(packages, LAMBDA p : ~p.installed)
            ELSE IF installFilter = "installed"
            THEN SelectSeq(packages, LAMBDA p : p.installed)
            ELSE packages
    IN  IF searchQuery # <<>> /\ Trim(searchQuery) # <<>>
        THEN SelectSeq(byStatus,
                       LAMBDA p : \/ Includes(p.name, searchQuery)
                                  \/ Includes(p.summary, searchQuery))
        ELSE byStatus

\* filterPackagesClientSide(packages, installFilter, searchQuery)
FilterPackagesClientSide(packages, installFilter, searchQuery) ==
    LET byStatus ==
            IF installFilter = "available"
            THEN SelectSeq(packages, LAMBDA p : ~p.installed)
            ELSE IF installFilter = "installed"
            THEN SelectSeq(packages, LAMBDA p : p.installed)
            ELSE packages
        query == Trim(ToLowerCase(searchQuery))
    IN  IF searchQuery # <<>> /\ Trim(searchQuery) # <<>>
        THEN SelectSeq(byStatus,
                       LAMBDA p : \/ Includes(ToLowerCase(p.name), query)
                                  \/ Includes(ToLowerCase(p.summary), query))
        ELSE byStatus

\* ---- filterPackagesClientSide on its own ----------------------------------
PackagePool ==
    { Package(<<"a">>, <<"B", "a">>, FALSE, <<"c">>),
      Package(<<"b">>, <<>>, TRUE, <<>>),
      Package(<<"A", "b">>, <<"a", " ", "b">>, TRUE, <<>>),
      Package(<<"b", "a">>, <<"A">>, FALSE, <<>>) }

RECURSIVE ListsUpTo(_)
ListsUpTo(n) ==
    IF n = 0 THEN {<<>>}
    ELSE LET shorter == ListsUpTo(n - 1)
         IN  shorter \cup {Append(l, p) : l \in shorter, p \in PackagePool}

Queries ==
    { <<>>, <<" ">>, <<"a">>, <<"B">>, <<" ", "A", "b", " ">>, <<"a", " ", "b">>,
      <<"b", "b">> }

FilterIdle ==
    /\ fPackages = <<>>
    /\ fFilter = "all"
    /\ fQuery = <<>>
    /\ fResult = <<>>
    /\ fDone = FALSE

FilterInit ==
    /\ fPackages \in ListsUpTo(MaxPackages)
    /\ fFilter \in InstallFilters
    /\ fQuery \in Queries
    /\ fResult = <<>>
    /\ fDone = FALSE

Filter ==
    /\ ~fDone
    /\ fResult' = FilterPackagesClientSide(fPackages, fFilter, fQuery)
    /\ fDone' = TRUE
    /\ UNCHANGED <<fPackages, fFilter, fQuery>>

\* ---- AppProvider: state, refs and requests in flight ---------------------
VARIABLES
    state,                \* useState<AppState>: stores, packages and filters
    loadRequestId,        \* useRef(0): the id of the latest store fetch
    searchDebounceTimer,  \* useRef: the id of the timer set last (0: null)
    timers,               \* the debounce timers set and neither fired nor cleared
    requests,             \* backend commands issued and not yet settled
    issued                \* number of backend commands issued so far

ctxVars == <<state, loadRequestId, searchDebounceTimer, timers, requests, issued>>

MaxCommands == 6     \* backend commands issued in one run, mount included

MaxTimers == 3       \* timer ids in use at one time

NoneId == "<null>"   \* activeStore / activeCategory: null

StoreIds == {"m", "n"}

CategoryIds == {"c"}

\* response.packages of get-store-data, per store
StoreData(storeId) ==
    IF storeId = "m"
    THEN <<Package(<<"a">>, <<"B", "a">>, FALSE, <<"c">>), Package(<<"b">>, <<>>, TRUE, <<>>)>>
    ELSE <<Package(<<"A", "b">>, <<"a", " ", "b">>, TRUE, <<>>)>>

\* the stores list-stores answers with
StoreList == <<"m", "n">>

\* response.packages of filter-packages: what the backend selects is its own
\* business; it answers with some packages of the store asked for, fewer
\* than the limit of 1000 (response.limited is false)
FilterResponses(storeId) ==
    IF storeId = NoneId THEN {<<>>}
    ELSE {StoreData(storeId), Tail(StoreData(storeId))}

ContextQueries == {<<>>, <<"a">>}

\* e.message of a failed command
CommandError == <<"command failed">>

\* initialState, with the values restored from storage. The category list
\* and the page-level loading and error fields, which only list-stores and
\* list-categories write, are not part of the model.
InitialState(activeStore, activeCategory, installFilter, searchQuery) ==
    [stores |-> <<>>, packages |-> <<>>,
     allPackages |-> <<>>, activeStore |-> activeStore,
     activeCategory |-> activeCategory, installFilter |-> installFilter,
     searchQuery |-> searchQuery,
     packagesLoading |-> FALSE, packagesError |-> Null,
     totalPackageCount |-> 0, limitedResults |-> FALSE]

\* a backend command in flight, with the values its continuation captured
Request(command, storeId, categoryId, requestId, installFilter, searchQuery) ==
    [command |-> command, store |-> storeId, category |-> categoryId,
     requestId |-> requestId, installFilter |-> installFilter,
     searchQuery |-> searchQuery]

\* the provider at one moment: state, refs and requests
Cx ==
    [state |-> state, loadRequestId |-> loadRequestId,
     requests |-> requests, issued |-> issued]

Issue(cx, request) ==
    [cx EXCEPT !.requests = Append(@, request), !.issued = @ + 1]

\* loadStores, up to the await
LoadStores(cx) ==
    Issue(cx, Request("list-stores", NoneId, NoneId, 0, "all", <<>>))

\* loadCategories(storeId): list-categories is issued; its continuation
\* writes the category list only
LoadCategories(cx, storeId) == [cx EXCEPT !.issued = @ + 1]

\* loadPackages(), called without parameters
LoadPackages(cx) ==
    LET prev == cx.state
        storeId == prev.activeStore
        categoryId == prev.activeCategory
        filtered == FilterPackagesClientSide(prev.allPackages,
                                            prev.installFilter, prev.searchQuery)
    IN  IF Len(prev.allPackages) > 0 /\ categoryId = NoneId
        THEN [cx EXCEPT !.state.packages = filtered,
                        !.state.totalPackageCount = Len(filtered),
                        !.state.packagesLoading = FALSE]
        ELSE IF storeId # NoneId /\ categoryId = NoneId
        THEN [Issue(cx, Request("get-store-data", storeId, NoneId,
                                cx.loadRequestId + 1, prev.installFilter,
                                prev.searchQuery))
                 EXCEPT !.loadRequestId = @ + 1,
                        !.state.packagesLoading = TRUE,
                        !.state.packagesError = Null]
        ELSE [Issue(cx, Request("filter-packages", storeId, categoryId, 0,
                                prev.installFilter, prev.searchQuery))
                 EXCEPT !.state.packagesLoading = TRUE,
                        !.state.packagesError = Null]

\* the effects that follow a state update: categories are reloaded when the
\* active store changed, packages when the store or the category changed
EffectsOn(storeChanged, categoryChanged, cx) ==
    LET afterCategories ==
            IF storeChanged THEN LoadCategories(cx, cx.state.activeStore) ELSE cx
    IN  IF storeChanged \/ categoryChanged
        THEN LoadPackages(afterCategories)
        ELSE afterCategories

RunEffects(before, cx) ==
    EffectsOn(cx.state.activeStore # before.activeStore,
              cx.state.activeCategory # before.activeCategory, cx)

\* the variables take the values of cx
Becomes(cx) ==
    /\ cx.issued <= MaxCommands
    /\ state' = cx.state
    /\ loadRequestId' = cx.loadRequestId
    /\ requests' = cx.requests
    /\ issued' = cx.issued

\* no provider in this run
CtxIdle ==
    /\ state = InitialState(NoneId, NoneId, "all", <<>>)
    /\ loadRequestId = 0
    /\ searchDebounceTimer = 0
    /\ timers = {}
    /\ requests = <<>>
    /\ issued = 0

\* AppProvider mounted: the three mount effects have run
CtxInit ==
    \E activeStore \in {NoneId, "m"}, activeCategory \in {NoneId, "c"},
       installFilter \in {"all"}, searchQuery \in {<<>>} :
        LET cx0 == [state |-> InitialState(activeStore, activeCategory,
                                           installFilter, searchQuery),
                    loadRequestId |-> 0, requests |-> <<>>, issued |-> 0]
            cx1 == LoadCategories(LoadStores(cx0), activeStore)
            cx2 == LoadPackages(LoadCategories(cx1, activeStore))
        IN  /\ state = cx2.state
            /\ loadRequestId = cx2.loadRequestId
            /\ requests = cx2.requests
            /\ issued = cx2.issued
            /\ searchDebounceTimer = 0
            /\ timers = {}

\* the state updates of setActiveStore, setActiveCategory and
\* setInstallFilter
WithActiveStore(cx, storeId) ==
    [cx EXCEPT !.state.activeStore = storeId,
               !.state.activeCategory = NoneId,
               !.state.allPackages = <<>>]

WithActiveCategory(cx, categoryId) ==
    [cx EXCEPT !.state.activeCategory = categoryId]

WithInstallFilter(cx, filter) ==
    LET prev == cx.state
        filtered == FilterPackagesClientSide(prev.allPackages, filter,
                                            prev.searchQuery)
    IN  IF Len(prev.allPackages) > 0 /\ prev.activeCategory = NoneId
        THEN [cx EXCEPT !.state.installFilter = filter,
                        !.state.packages = filtered,
                        !.state.totalPackageCount = Len(filtered)]
        ELSE [cx EXCEPT !.state.installFilter = filter]

\* setActiveStore(storeId)
SetActiveStore(storeId) ==
    /\ Becomes(RunEffects(state, WithActiveStore(Cx, storeId)))
    /\ UNCHANGED <<searchDebounceTimer, timers>>

\* setActiveCategory(categoryId)
SetActiveCategory(categoryId) ==
    /\ Becomes(RunEffects(state, WithActiveCategory(Cx, categoryId)))
    /\ UNCHANGED <<searchDebounceTimer, timers>>

\* setInstallFilter(filter)
SetInstallFilter(filter) ==
    /\ state' = WithInstallFilter(Cx, filter).state
    /\ UNCHANGED <<loadRequestId, searchDebounceTimer, timers, requests, issued>>

\* setTimeout: the id of the new timer
NewTimer(pendingTimers, ref) ==
    CHOOSE t \in 1..MaxTimers :
        /\ t \notin pendingTimers \cup {ref}
        /\ \A u \in 1..(t - 1) : u \in pendingTimers \cup {ref}

\* setSearchQuery(query)
SetSearchQuery(query) ==
    LET filtered == FilterPackagesClientSide(state.allPackages,
                                            state.installFilter, query)
        cleared == timers \ {searchDebounceTimer}
    IN  /\ IF Len(state.allPackages) > 0 /\ state.activeCategory = NoneId
           THEN /\ state' = [state EXCEPT !.searchQuery = query,
                                          !.packages = filtered,
                                          !.totalPackageCount = Len(filtered)]
                /\ timers' = cleared
                /\ UNCHANGED searchDebounceTimer
           ELSE /\ (1..MaxTimers) \ (cleared \cup {searchDebounceTimer}) # {}
                /\ state' = [state EXCEPT !.searchQuery = query]
                /\ searchDebounceTimer' = NewTimer(cleared, searchDebounceTimer)
                /\ timers' = cleared \cup {searchDebounceTimer'}
        /\ UNCHANGED <<loadRequestId, requests, issued>>

\* the debounce timer t fires: loadPackages()
DebounceFires(t) ==
    /\ t \in timers
    /\ timers' = timers \ {t}
    /\ UNCHANGED searchDebounceTimer
    /\ Becomes(LoadPackages(Cx))

\* refreshPackages()
RefreshPackages ==
    /\ Becomes(LoadPackages([Cx EXCEPT !.state.allPackages = <<>>]))
    /\ UNCHANGED <<searchDebounceTimer, timers>>

\* the request at position k, taken out of the requests in flight
Settling(k, command) ==
    /\ k \in 1..Len(requests)
    /\ requests[k].command = command

\* loadStores after `await listStores()`
ListStoresThen(cx, ok) ==
    LET prev == cx.state
        activeStore == IF prev.activeStore # NoneId THEN prev.activeStore
                       ELSE StoreList[1]
    IN  IF ok
        THEN [cx EXCEPT !.state.stores = StoreList,
                        !.state.activeStore = activeStore]
        ELSE cx

\* the then and catch callbacks of getStoreData, for the request r
StoreDataThen(cx, r, ok, allPackages) ==
    LET filtered == FilterPackagesClientSide(allPackages, r.installFilter,
                                            r.searchQuery)
    IN  IF r.requestId # cx.loadRequestId THEN cx
        ELSE IF ok
        THEN [cx EXCEPT !.state.allPackages = allPackages,
                        !.state.packages = filtered,
                        !.state.totalPackageCount = Len(filtered),
                        !.state.limitedResults = FALSE,
                        !.state.packagesLoading = FALSE]
        ELSE [cx EXCEPT !.state.packagesError = CommandError,
                        !.state.packagesLoading = FALSE]

\* the then and catch callbacks of filterPackages, for the request r
FilterPackagesThen(cx, r, ok, packages) ==
    LET filtered == FilterPackagesClientSide(packages, r.installFilter,
                                            r.searchQuery)
    IN  IF ok
        THEN [cx EXCEPT !.state.packages = filtered,
                        !.state.totalPackageCount = Len(filtered),
                        !.state.limitedResults = FALSE,
                        !.state.packagesLoading = FALSE]
        ELSE [cx EXCEPT !.state.packagesError = CommandError,
                        !.state.packagesLoading = FALSE]

\* list-stores settles
ListStoresSettled(k, ok) ==
    /\ Settling(k, "list-stores")
    /\ Becomes(RunEffects(state,
            ListStoresThen([Cx EXCEPT !.requests = RemoveAt(requests, k)], ok)))
    /\ UNCHANGED <<searchDebounceTimer, timers>>

\* variant: a store response is applied whatever its request id
StoreDataSettledUnguarded(k, ok) ==
    /\ Settling(k, "get-store-data")
    /\ LET r == requests[k]
           cx == [Cx EXCEPT !.requests = RemoveAt(requests, k)]
           allPackages == StoreData(r.store)
           filtered == FilterPackagesClientSide(allPackages, r.installFilter,
                                               r.searchQuery)
       IN  IF ok
           THEN Becomes([cx EXCEPT
                    !.state.allPackages = allPackages,
                    !.state.packages = filtered,
                    !.state.totalPackageCount = Len(filtered),
                    !.state.limitedResults = FALSE,
                    !.state.packagesLoading = FALSE])
           ELSE Becomes([cx EXCEPT !.state.packagesError = CommandError,
                                   !.state.packagesLoading = FALSE])
    /\ UNCHANGED <<searchDebounceTimer, timers>>

\* variant: only the response is guarded by the request id, not the error
StoreDataSettledErrorUnguarded(k, ok) ==
    /\ Settling(k, "get-store-data")
    /\ LET r == requests[k]
           cx == [Cx EXCEPT !.requests = RemoveAt(requests, k)]
           allPackages == StoreData(r.store)
           filtered == FilterPackagesClientSide(allPackages, r.installFilter,
                                               r.searchQuery)
       IN  IF ~ok
           THEN Becomes([cx EXCEPT !.state.packagesError = CommandError,
                                   !.state.packagesLoading = FALSE])
           ELSE IF r.requestId # loadRequestId
           THEN Becomes(cx)
           ELSE Becomes([cx EXCEPT
                    !.state.allPackages = allPackages,
                    !.state.packages = filtered,
                    !.state.totalPackageCount = Len(filtered),
                    !.state.limitedResults = FALSE,
                    !.state.packagesLoading = FALSE])
    /\ UNCHANGED <<searchDebounceTimer, timers>>

\* get-store-data settles
StoreDataSettled(k, ok) ==
    /\ Settling(k, "get-store-data")
    /\ Becomes(StoreDataThen([Cx EXCEPT !.requests = RemoveAt(requests, k)],
                             requests[k], ok, StoreData(requests[k].store)))
    /\ UNCHANGED <<searchDebounceTimer, timers>>

\* filter-packages settles
FilterPackagesSettled(k, ok, packages) ==
    /\ Settling(k, "filter-packages")
    /\ packages \in FilterResponses(requests[k].store)
    /\ Becomes(FilterPackagesThen([Cx EXCEPT !.requests = RemoveAt(requests, k)],
                                  requests[k], ok, packages))
    /\ UNCHANGED <<searchDebounceTimer, timers>>

\* ========================================================================
\* Part 6: the router (utils/routing)
\* ========================================================================
VARIABLES
    location,   \* parseLocationToRouter: its argument (path, options)
    router,     \* parseLocationToRouter: its result
    parseDone,     \* whether the call was made
    built,         \* buildLocationFromRouter: its result for the parsed state
    reparsed,      \* parseLocationToRouter: its result for the built location
    roundStep      \* "none", "built", "reparsed"

routeVars == <<location, router, parseDone, built, reparsed, roundStep>>

MaxSegments == 3     \* length of the paths handed to the parser

\* a field that is not set (undefined)
Absent == "<undefined>"

\* selectedPackage: null, and selectedPackage left out (undefined)
NoPackage == Package(<<"<null>">>, <<>>, FALSE, <<>>)

UnsetPackage == Package(<<"<undefined>">>, <<>>, FALSE, <<>>)

\* a package name as a path segment, and a path segment as a package name
SegmentOfName(name) ==
    IF name = <<"a">> THEN "a"
    ELSE IF name = <<"b">> THEN "b"
    ELSE IF name = <<"A", "b">> THEN "Ab"
    ELSE ""

NameOfSegment(segment) ==
    IF segment = "a" THEN <<"a">>
    ELSE IF segment = "b" THEN <<"b">>
    ELSE IF segment = "Ab" THEN <<"A", "b">>
    ELSE <<segment>>

\* RouterState; fields a return statement leaves out are absent
RouterState(route, selectedPackage, selectedCategory, appName) ==
    [route |-> route, selectedPackage |-> selectedPackage,
     selectedCategory |-> selectedCategory, appName |-> appName]

\* const [segment1, segment2] = path: a position past the end is undefined
Segment(path, n) == IF n <= Len(path) THEN path[n] ELSE Absent

\* a string in a condition: undefined and the empty string count as false
TruthySegment(text) == text # Absent /\ text # ""

\* variant: the identifier after 'category' or 'app' is not looked at
ParseLocationFirstSegmentOnly(loc) ==
    LET path == loc.path
        segment1 == Segment(path, 1)
        segment2 == Segment(path, 2)
        baseState == RouterState("store", UnsetPackage, Absent, Absent)
    IN  IF Len(path) = 0 THEN baseState
        ELSE IF segment1 = "category"
        THEN RouterState("category", UnsetPackage, segment2, Absent)
        ELSE IF segment1 = "app"
        THEN RouterState("app", NoPackage, Absent, segment2)
        ELSE baseState

\* parseLocationToRouter(location)
ParseLocationToRouter(loc) ==
    LET path == loc.path
        segment1 == Segment(path, 1)
        segment2 == Segment(path, 2)
        baseState == RouterState("store", UnsetPackage, Absent, Absent)
    IN  IF Len(path) = 0 THEN baseState
        ELSE IF segment1 = "category" /\ TruthySegment(segment2)
        THEN RouterState("category", UnsetPackage, segment2, Absent)
        ELSE IF segment1 = "app" /\ TruthySegment(segment2)
        THEN RouterState("app", NoPackage, Absent, segment2)
        ELSE baseState

\* buildLocationFromRouter(router, storeId, installFilter)
BuildLocationFromRouter(r, storeId, installFilter) ==
    LET options == [store |-> IF TruthySegment(storeId) THEN storeId ELSE Absent,
                    filter |-> IF TruthySegment(installFilter) /\ installFilter # "all"
                               THEN installFilter ELSE Absent]
    IN  IF r.route = "category" /\ TruthySegment(r.selectedCategory)
        THEN [path |-> <<"category", r.selectedCategory>>, options |-> options]
        ELSE IF /\ r.route = "app"
                /\ r.selectedPackage # NoPackage
                /\ r.selectedPackage # UnsetPackage
        THEN [path |-> <<"app", SegmentOfName(r.selectedPackage.name)>>,
              options |-> options]
        ELSE [path |-> <<>>, options |-> options]

\* path segments: the two keywords, an empty segment, identifiers
Segments == {"category", "app", "", "nav", "signalk-server"}

RECURSIVE PathsUpTo(_)
PathsUpTo(n) ==
    IF n = 0 THEN {<<>>}
    ELSE LET shorter == PathsUpTo(n - 1)
         IN  shorter \cup {Append(p, seg) : p \in shorter, seg \in Segments}

\* query options: store and filter, each present or not
Options == [store : {Absent, "m"}, filter : {Absent, "installed"}]

Locations == [path : PathsUpTo(MaxSegments), options : Options]

\* nothing built yet
RoundIdle ==
    /\ built = [path |-> <<>>, options |-> [store |-> Absent, filter |-> Absent]]
    /\ reparsed = RouterState("store", UnsetPackage, Absent, Absent)
    /\ roundStep = "none"

RouteIdle ==
    /\ location = [path |-> <<>>, options |-> [store |-> Absent, filter |-> Absent]]
    /\ router = RouterState("store", UnsetPackage, Absent, Absent)
    /\ parseDone = FALSE
    /\ RoundIdle

RouteInit ==
    /\ location \in Locations
    /\ router = RouterState("store", UnsetPackage, Absent, Absent)
    /\ parseDone = FALSE
    /\ RoundIdle

Parse ==
    /\ ~parseDone
    /\ router' = ParseLocationToRouter(location)
    /\ parseDone' = TRUE
    /\ UNCHANGED <<location, built, reparsed, roundStep>>

\* the parsed state is turned into a location again, with the query
\* parameters of the original location
Build ==
    /\ parseDone
    /\ roundStep = "none"
    /\ built' = BuildLocationFromRouter(router, location.options.store,
                                        location.options.filter)
    /\ roundStep' = "built"
    /\ UNCHANGED <<location, router, parseDone, reparsed>>

\* the built location is parsed
ParseBuilt ==
    /\ roundStep = "built"
    /\ reparsed' = ParseLocationToRouter(built)
    /\ roundStep' = "reparsed"
    /\ UNCHANGED <<location, router, parseDone, built>>

\* ========================================================================
\* Part 7: navigation (hooks/useUrlBasedNavigation and AppContent)
\* The external location is `location`, the router state is `router`; the
\* provider is the one of Part 5.
\* ========================================================================
VARIABLES
    hasInitialized,    \* useRef: the location was applied to the provider
    actionInProgress,  \* useState: an install is running
    install,           \* the handleInstall call in flight, with the
                       \* state.allPackages its callback has captured
    installedApps      \* backend: the packages installed during the run

navVars == <<hasInitialized, actionInProgress, install, installedApps>>

NoInstall == [phase |-> "none", name |-> <<>>, allPackages |-> <<>>]

NavIdle ==
    /\ hasInitialized = FALSE
    /\ actionInProgress = FALSE
    /\ install = NoInstall
    /\ installedApps = {}

\* router.selectedPackage in a condition
HasPackage(r) == r.selectedPackage # NoPackage /\ r.selectedPackage # UnsetPackage

\* packages.find((p) => p.name === name)
FindPackageByName(packages, name) ==
    LET hits == SelectSeq(packages, LAMBDA p : p.name = name)
    IN  IF hits = <<>> THEN UnsetPackage ELSE hits[1]

\* state.activeStore ?? undefined
StoreOrAbsent(storeId) == IF storeId = NoneId THEN Absent ELSE storeId

\* the packages of a response, as the backend knows them now
MarkInstalled(packages, names) ==
    [n \in 1..Len(packages) |->
        IF packages[n].name \in names
        THEN [packages[n] EXCEPT !.installed = TRUE]
        ELSE packages[n]]

\* the provider, the router and the ref at one moment
Nv(cx, r, initialized) == [cx |-> cx, router |-> r, hasInitialized |-> initialized]

\* effect "Initialize from URL once when stores are loaded"
InitEffect(cx, loc, initialized) ==
    LET rendered == cx.state
        initialState == ParseLocationToRouter(loc)
        storeId == loc.options.store
        filter == loc.options.filter
        a == IF /\ TruthySegment(storeId)
                /\ \E n \in 1..Len(rendered.stores) : rendered.stores[n] = storeId
             THEN WithActiveStore(cx, storeId) ELSE cx
        b == IF filter \in InstallFilters THEN WithInstallFilter(a, filter) ELSE a
        c == IF initialState.route = "category"
             THEN WithActiveCategory(b, initialState.selectedCategory) ELSE b
        d == IF initialState.route = "app" /\ Len(rendered.packages) = 0
             THEN LoadPackages(c) ELSE c
    IN  IF initialized \/ Len(rendered.stores) = 0
        THEN [cx |-> cx, hasInitialized |-> initialized]
        ELSE [cx |-> d, hasInitialized |-> TRUE]

\* effect "Update router state when packages are loaded"
ResolveEffect(rendered, loc, r) ==
    LET currentRouter == ParseLocationToRouter(loc)
        found == FindPackageByName(rendered.packages,
                                   NameOfSegment(currentRouter.appName))
    IN  IF /\ currentRouter.route = "app"
           /\ Len(rendered.packages) > 0
           /\ found # UnsetPackage
           /\ r.route = "app"
           /\ ~HasPackage(r)
        THEN [r EXCEPT !.selectedPackage = found]
        ELSE r

\* effect "Sync selected package with state updates"
SyncEffect(rendered, r) ==
    LET updatedPkg == FindPackageByName(rendered.allPackages, r.selectedPackage.name)
    IN  IF /\ r.route = "app"
           /\ HasPackage(r)
           /\ updatedPkg # UnsetPackage
           /\ updatedPkg.installed # r.selectedPackage.installed
        THEN [r EXCEPT !.selectedPackage = updatedPkg]
        ELSE r

\* the effects that follow a render: those of the hook and of AppContent,
\* then those of the provider, then the effects of the render their state
\* updates lead to
NavEffects(before, nv, loc) ==
    LET rendered == nv.cx.state
        initDeps == \/ rendered.stores # before.stores
                    \/ Len(rendered.packages) # Len(before.packages)
        h == IF initDeps THEN InitEffect(nv.cx, loc, nv.hasInitialized)
             ELSE [cx |-> nv.cx, hasInitialized |-> nv.hasInitialized]
        r1 == SyncEffect(rendered,
                  IF rendered.packages # before.packages
                  THEN ResolveEffect(rendered, loc, nv.router) ELSE nv.router)
        c1 == EffectsOn(rendered.activeStore # before.activeStore,
                        rendered.activeCategory # before.activeCategory, h.cx)
        c2 == EffectsOn(c1.state.activeStore # rendered.activeStore,
                        c1.state.activeCategory # rendered.activeCategory, c1)
        final == c2.state
        r2 == SyncEffect(final,
                  IF final.packages # rendered.packages
                  THEN ResolveEffect(final, loc, r1) ELSE r1)
    IN  Nv(c2, r2, h.hasInitialized)

NavBecomes(nv) ==
    /\ Becomes(nv.cx)
    /\ router' = nv.router
    /\ hasInitialized' = nv.hasInitialized

\* the locations the browser can be at
NavPaths == { <<>>, <<"app", "a">>, <<"category", "c">> }

NavLocations == [path : NavPaths,
                 options : [store : {Absent}, filter : {Absent, "installed"}]]

\* the commands of the mount whose continuations write the state: list-stores
\* and the package load
MountCommands == 2

\* AppProvider and AppContent are mounted at a location: the state restored
\* from storage, the router from getInitialRouterState(location).router, and
\* the mount effects.
NavInit ==
    \E loc \in NavLocations, activeCategory \in {NoneId, "c"} :
        LET cx0 == [state |-> InitialState("m", activeCategory, "all", <<>>),
                    loadRequestId |-> 0, requests |-> <<>>, issued |-> 0]
            cx1 == LoadCategories(LoadStores(cx0), "m")
            cx2 == LoadPackages(LoadCategories(cx1, "m"))
        IN  /\ state = cx2.state
            /\ loadRequestId = cx2.loadRequestId
            /\ requests = cx2.requests
            /\ issued = MountCommands
            /\ searchDebounceTimer = 0
            /\ timers = {}
            /\ location = loc
            /\ router = ParseLocationToRouter(loc)
            /\ parseDone = FALSE
            /\ RoundIdle
            /\ NavIdle

notNavigation == <<searchDebounceTimer, timers, parseDone, built, reparsed, roundStep>>

\* variant: a category location does not select the category
HandleLocationChangedRouterOnly(cx, loc) ==
    LET newState == ParseLocationToRouter(loc)
        packages == cx.state.packages
        found == FindPackageByName(packages, NameOfSegment(newState.appName))
    IN  IF newState.route = "app"
        THEN [cx |-> IF Len(packages) = 0 THEN LoadPackages(cx) ELSE cx,
              router |-> IF found # UnsetPackage
                         THEN [newState EXCEPT !.selectedPackage = found]
                         ELSE newState]
        ELSE [cx |-> cx, router |-> newState]

\* the listener registered with onLocationChanged
HandleLocationChanged(cx, loc) ==
    LET newState == ParseLocationToRouter(loc)
        packages == cx.state.packages
        found == FindPackageByName(packages, NameOfSegment(newState.appName))
    IN  IF newState.route = "app"
        THEN [cx |-> IF Len(packages) = 0 THEN LoadPackages(cx) ELSE cx,
              router |-> IF found # UnsetPackage
                         THEN [newState EXCEPT !.selectedPackage = found]
                         ELSE newState]
        ELSE IF newState.route = "category"
        THEN [cx |-> WithActiveCategory(cx, newState.selectedCategory),
              router |-> newState]
        ELSE [cx |-> cx, router |-> newState]

\* the browser moves to loc (back, forward, an edited address) and the
\* location-changed notification is delivered
LocationChanged(loc) ==
    /\ location' = loc
    /\ LET h == HandleLocationChanged(Cx, loc)
       IN  NavBecomes(NavEffects(state, Nv(h.cx, h.router, hasInitialized), loc))
    /\ UNCHANGED <<notNavigation, actionInProgress, install, installedApps>>

\* handleAppSelect(pkg): a click in the list of a category
HandleAppSelect(n) ==
    /\ router.route = "category"
    /\ n \in 1..Len(state.packages)
    /\ LET newRouter == RouterState("app", state.packages[n], Absent,
                                   SegmentOfName(state.packages[n].name))
       IN  /\ location' = BuildLocationFromRouter(newRouter,
                              StoreOrAbsent(state.activeStore), state.installFilter)
           /\ NavBecomes(NavEffects(state, Nv(Cx, newRouter, hasInitialized),
                                    location'))
    /\ UNCHANGED <<notNavigation, actionInProgress, install, installedApps>>

\* handleBack(): the Back button of the details view
HandleBack ==
    /\ router.route = "app"
    /\ HasPackage(router)
    /\ LET newRouter == IF state.activeCategory # NoneId
                        THEN RouterState("category", UnsetPackage,
                                         state.activeCategory, Absent)
                        ELSE RouterState("store", UnsetPackage, Absent, Absent)
       IN  /\ location' = BuildLocationFromRouter(newRouter,
                              StoreOrAbsent(state.activeStore), state.installFilter)
           /\ NavBecomes(NavEffects(state, Nv(Cx, newRouter, hasInitialized),
                                    location'))
    /\ UNCHANGED <<notNavigation, actionInProgress, install, installedApps>>

\* refresh() issues list-stores, list-categories and a package load
RefreshCommands == 3

\* handleInstall(pkg) up to `await installPackage(...)`: the Install button of
\* the details view, shown for a package that is not installed and disabled
\* while an action is in progress. An install is started only while the
\* commands of its refresh are within MaxCommands.
HandleInstall ==
    /\ router.route = "app"
    /\ HasPackage(router)
    /\ ~router.selectedPackage.installed
    /\ ~actionInProgress
    /\ install.phase = "none"
    /\ \A k \in 1..Len(requests) : requests[k].command # "list-stores"
    /\ issued + RefreshCommands <= MaxCommands
    /\ actionInProgress' = TRUE
    /\ install' = [phase |-> "installing", name |-> router.selectedPackage.name,
                   allPackages |-> state.allPackages]
    /\ UNCHANGED <<ctxVars, routeVars, hasInitialized, installedApps>>

\* installPackage settles: on success refresh() runs up to
\* `await loadStores()`; on failure the catch block
InstallSettled(ok) ==
    /\ install.phase = "installing"
    /\ IF ok
       THEN /\ installedApps' = installedApps \cup {install.name}
            /\ install' = [install EXCEPT !.phase = "refreshing"]
            /\ NavBecomes(NavEffects(state,
                   Nv(LoadStores([Cx EXCEPT !.state.allPackages = <<>>]),
                      router, hasInitialized), location))
            /\ UNCHANGED actionInProgress
       ELSE /\ actionInProgress' = FALSE
            /\ install' = NoInstall
            /\ UNCHANGED <<state, loadRequestId, requests, issued, router,
                           hasInitialized, installedApps>>
    /\ UNCHANGED <<notNavigation, location>>

\* list-stores settles; when it is the one refresh() awaits, refresh goes on
\* with loadCategories and loadPackages, and handleInstall sets its timer
NavListStoresSettled(k, ok) ==
    /\ Settling(k, "list-stores")
    /\ LET cx1 == ListStoresThen([Cx EXCEPT !.requests = RemoveAt(requests, k)], ok)
           cx2 == IF install.phase = "refreshing"
                  THEN LoadPackages(LoadCategories(cx1, cx1.state.activeStore))
                  ELSE cx1
       IN  NavBecomes(NavEffects(state, Nv(cx2, router, hasInitialized), location))
    /\ install' = IF install.phase = "refreshing"
                  THEN [install EXCEPT !.phase = "timer"] ELSE install
    /\ UNCHANGED <<notNavigation, location, actionInProgress, installedApps>>

\* the setTimeout(..., 0) callback of handleInstall
InstallTimerFires ==
    /\ install.phase = "timer"
    /\ LET updatedPkg == FindPackageByName(install.allPackages,
                                          router.selectedPackage.name)
           current == IF /\ router.route = "app"
                         /\ HasPackage(router)
                         /\ updatedPkg # UnsetPackage
                      THEN [router EXCEPT !.selectedPackage = updatedPkg]
                      ELSE router
       IN  NavBecomes(NavEffects(state, Nv(Cx, current, hasInitialized), location))
    /\ actionInProgress' = FALSE
    /\ install' = NoInstall
    /\ UNCHANGED <<notNavigation, location, installedApps>>

\* get-store-data settles
NavStoreDataSettled(k, ok) ==
    /\ Settling(k, "get-store-data")
    /\ NavBecomes(NavEffects(state,
           Nv(StoreDataThen([Cx EXCEPT !.requests = RemoveAt(requests, k)],
                            requests[k], ok,
                            MarkInstalled(StoreData(requests[k].store),
                                          installedApps)),
              router, hasInitialized), location))
    /\ UNCHANGED <<notNavigation, location, actionInProgress, install,
                   installedApps>>

\* filter-packages settles
NavFilterPackagesSettled(k, ok, packages) ==
    /\ Settling(k, "filter-packages")
    /\ packages \in FilterResponses(requests[k].store)
    /\ NavBecomes(NavEffects(state,
           Nv(FilterPackagesThen([Cx EXCEPT !.requests = RemoveAt(requests, k)],
                                 requests[k], ok,
                                 MarkInstalled(packages, installedApps)),
              router, hasInitialized), location))
    /\ UNCHANGED <<notNavigation, location, actionInProgress, install,
                   installedApps>>

\* ========================================================================
\* Specifications
\* ========================================================================
vars == <<call, proc, pending, emitted, first, failArg, params, argv,
          schema, config, formValues, validationErrors, lastSave, lastOp,
          vField, vValue, vResult, pkg, isLoadingConfig, configError,
          isSavingConfig, saveError, saveWarning, loads, saving, lastCommand,
          fPackages, fFilter, fQuery, fResult, fDone,
          state, loadRequestId, searchDebounceTimer, timers, requests, issued,
          location, router, parseDone, built, reparsed, roundStep,
          hasInitialized, actionInProgress, install, installedApps>>

\* the parts of the state that the steps of one part leave alone
notGateway == <<argVars, formVars, valVars, detVars, filterVars, ctxVars, routeVars, navVars>>
notForm == <<gwVars, argVars, valVars, detVars, filterVars, ctxVars, routeVars, navVars>>
notValidate == <<gwVars, argVars, formVars, detVars, filterVars, ctxVars, routeVars, navVars>>
notArgs == <<formVars, valVars, detVars, filterVars, ctxVars, routeVars, navVars>>
notDetails == <<gwVars, argVars, valVars, filterVars, ctxVars, routeVars, navVars>>
notContext == <<gwVars, argVars, formVars, valVars, detVars, filterVars, routeVars, navVars>>
notRoute == <<gwVars, argVars, formVars, valVars, detVars, filterVars, ctxVars, navVars>>
notFilter == <<gwVars, argVars, formVars, valVars, detVars, ctxVars, routeVars, navVars>>

\* no call made, no form mounted, no validation asked for
InitGateway == GwInit /\ ArgIdle /\ FormIdle /\ ValIdle /\ DetIdle /\ FilterIdle
    /\ CtxIdle /\ RouteIdle /\ NavIdle

\* several invocations in flight together
NextGateway ==
    \E i \in Invs :
        \/ Invoke(i, ConcRequests) /\ UNCHANGED notGateway
        \/ Stream(i) /\ UNCHANGED notGateway
        \/ Done(i) /\ UNCHANGED notGateway
        \/ Fail(i, ConcFailErrors) /\ UNCHANGED notGateway
        \/ Timer(i) /\ UNCHANGED notGateway
        \/ CloseCb(i) /\ UNCHANGED notGateway

SpecGateway == InitGateway /\ [][NextGateway]_vars

\* one invocation, every output
NextCall ==
    \/ Invoke(1, Requests(RichTexts)) /\ UNCHANGED notGateway
    \/ Stream(1) /\ UNCHANGED notGateway
    \/ Done(1) /\ UNCHANGED notGateway
    \/ Fail(1, FailErrors) /\ UNCHANGED notGateway
    \/ Timer(1) /\ UNCHANGED notGateway
    \/ CloseCb(1) /\ UNCHANGED notGateway

SpecCall == InitGateway /\ [][NextCall]_vars

\* the argument vectors of the request/response commands
InitArgs == GwInit /\ ArgInit /\ FormIdle /\ ValIdle /\ DetIdle /\ FilterIdle
    /\ CtxIdle /\ RouteIdle /\ NavIdle

NextArgs ==
    \/ ListCategories /\ UNCHANGED notArgs
    \/ ListPackagesByCategory /\ UNCHANGED notArgs
    \/ FilterPackages /\ UNCHANGED notArgs

SpecArgs == InitArgs /\ [][NextArgs]_vars

\* the configuration form
InitForm == GwInit /\ ArgIdle /\ FormInit /\ ValIdle /\ DetIdle /\ FilterIdle
    /\ CtxIdle /\ RouteIdle /\ NavIdle

NextForm ==
    \/ /\ \E id \in ConfigKeys, value \in EditValues : HandleFieldChange(id, value)
       /\ UNCHANGED notForm
    \/ HandleSave /\ UNCHANGED notForm
    \/ HandleCancel /\ UNCHANGED notForm
    \/ /\ \E cfg \in Configs : ConfigLoaded(cfg)
       /\ UNCHANGED notForm

SpecForm == InitForm /\ [][NextForm]_vars

\* validateField over every field shape and value
InitValidate == GwInit /\ ArgIdle /\ FormIdle /\ ValInit /\ DetIdle /\ FilterIdle
    /\ CtxIdle /\ RouteIdle /\ NavIdle

NextValidate == Validate /\ UNCHANGED notValidate

SpecValidate == InitValidate /\ [][NextValidate]_vars

\* the details view of one package, with its configuration form
InitDetails == GwInit /\ ArgIdle /\ ValIdle /\ DetInit /\ FilterIdle
    /\ CtxIdle /\ RouteIdle /\ NavIdle

NextDetails ==
    \/ /\ \E k \in 1..Len(loads), so \in SchemaOutcomes, co \in ConfigOutcomes,
             schemaFirst \in BOOLEAN : LoadSettled(k, so, co, schemaFirst)
       /\ UNCHANGED notDetails
    \/ /\ \E id \in FieldIds(schema), value \in DetailsEdits :
             DetailsFieldChange(id, value)
       /\ UNCHANGED notDetails
    \/ DetailsSave /\ UNCHANGED notDetails
    \/ DetailsCancel /\ UNCHANGED notDetails
    \/ /\ \E o \in SetOutcomes : SetConfigSettled(o)
       /\ UNCHANGED notDetails
    \/ /\ \E o \in ConfigOutcomes : GetConfigSettled(o)
       /\ UNCHANGED notDetails

SpecDetails == InitDetails /\ [][NextDetails]_vars

\* the details view while the package displayed changes
NextDetailsNav ==
    \/ /\ \E p \in [name : DetailsPackageNames, installed : BOOLEAN] :
             PkgChanged(p)
       /\ UNCHANGED notDetails
    \/ /\ \E k \in 1..Len(loads), so \in SchemaOutcomes, co \in ConfigOutcomes,
             schemaFirst \in BOOLEAN : LoadSettled(k, so, co, schemaFirst)
       /\ UNCHANGED notDetails
    \/ /\ \E id \in FieldIds(schema), value \in DetailsEdits :
             DetailsFieldChange(id, value)
       /\ UNCHANGED notDetails
    \/ DetailsSave /\ UNCHANGED notDetails
    \/ DetailsCancel /\ UNCHANGED notDetails
    \/ /\ \E o \in SetOutcomes : SetConfigSettled(o)
       /\ UNCHANGED notDetails
    \/ /\ \E o \in ConfigOutcomes : GetConfigSettled(o)
       /\ UNCHANGED notDetails

SpecDetailsNav == InitDetails /\ [][NextDetailsNav]_vars

\* the details view of a package whose schema holds a password field, its
\* get-config responses passing through executeCommand
NextSecret ==
    \/ /\ \E k \in 1..Len(loads), so \in SecretSchemaOutcomes,
             co \in SecretConfigOutcomes, schemaFirst \in BOOLEAN :
                 LoadSettled(k, so, co, schemaFirst)
       /\ UNCHANGED notDetails
    \/ /\ \E id \in FieldIds(schema), value \in SecretEdits :
             DetailsFieldChange(id, value)
       /\ UNCHANGED notDetails
    \/ DetailsSave /\ UNCHANGED notDetails
    \/ DetailsCancel /\ UNCHANGED notDetails
    \/ /\ \E o \in SetOutcomes : SetConfigSettled(o)
       /\ UNCHANGED notDetails
    \/ /\ \E o \in SecretConfigOutcomes : GetConfigSettled(o)
       /\ UNCHANGED notDetails

SpecSecret == InitDetails /\ [][NextSecret]_vars

\* filterPackagesClientSide over every list, filter and query
InitFilter == GwInit /\ ArgIdle /\ FormIdle /\ ValIdle /\ DetIdle /\ FilterInit
    /\ CtxIdle /\ RouteIdle /\ NavIdle

NextFilter == Filter /\ UNCHANGED notFilter

SpecFilter == InitFilter /\ [][NextFilter]_vars

\* the provider with its user actions and the settling of its commands
InitContext ==
    GwInit /\ ArgIdle /\ FormIdle /\ ValIdle /\ DetIdle /\ FilterIdle /\ CtxInit
    /\ RouteIdle /\ NavIdle

NextContext ==
    \/ /\ \E storeId \in StoreIds : SetActiveStore(storeId)
       /\ UNCHANGED notContext
    \/ /\ \E categoryId \in CategoryIds \cup {NoneId} : SetActiveCategory(categoryId)
       /\ UNCHANGED notContext
    \/ /\ \E filter \in InstallFilters : SetInstallFilter(filter)
       /\ UNCHANGED notContext
    \/ /\ \E query \in ContextQueries : SetSearchQuery(query)
       /\ UNCHANGED notContext
    \/ /\ \E t \in timers : DebounceFires(t)
       /\ UNCHANGED notContext
    \/ RefreshPackages /\ UNCHANGED notContext
    \/ /\ \E k \in 1..Len(requests), ok \in BOOLEAN : ListStoresSettled(k, ok)
       /\ UNCHANGED notContext
    \/ /\ \E k \in 1..Len(requests), ok \in BOOLEAN : StoreDataSettled(k, ok)
       /\ UNCHANGED notContext
    \/ /\ \E k \in 1..Len(requests), ok \in BOOLEAN :
             \E packages \in FilterResponses(requests[k].store) :
                 FilterPackagesSettled(k, ok, packages)
       /\ UNCHANGED notContext

SpecContext == InitContext /\ [][NextContext]_vars

\* parseLocationToRouter over every location
InitRoute ==
    GwInit /\ ArgIdle /\ FormIdle /\ ValIdle /\ DetIdle /\ FilterIdle /\ CtxIdle
    /\ RouteInit /\ NavIdle

NextRoute ==
    \/ Parse /\ UNCHANGED notRoute
    \/ Build /\ UNCHANGED notRoute
    \/ ParseBuilt /\ UNCHANGED notRoute

SpecRoute == InitRoute /\ [][NextRoute]_vars

\* the application at a location, with the browser moving between locations
notNav == <<gwVars, argVars, formVars, valVars, detVars, filterVars>>

InitNav ==
    GwInit /\ ArgIdle /\ FormIdle /\ ValIdle /\ DetIdle /\ FilterIdle /\ NavInit

NextNav ==
    \/ /\ \E loc \in NavLocations : LocationChanged(loc)
       /\ UNCHANGED notNav
    \/ /\ \E n \in 1..Len(state.packages) : HandleAppSelect(n)
       /\ UNCHANGED notNav
    \/ HandleBack /\ UNCHANGED notNav
    \/ /\ \E k \in 1..Len(requests), ok \in BOOLEAN : NavListStoresSettled(k, ok)
       /\ UNCHANGED notNav
    \/ /\ \E k \in 1..Len(requests), ok \in BOOLEAN : NavStoreDataSettled(k, ok)
       /\ UNCHANGED notNav
    \/ /\ \E k \in 1..Len(requests), ok \in BOOLEAN :
             \E packages \in FilterResponses(requests[k].store) :
                 NavFilterPackagesSettled(k, ok, packages)
       /\ UNCHANGED notNav

SpecNav == InitNav /\ [][NextNav]_vars

\* the application opened at a location and used through its own controls,
\* the backend answering every load. What is pending is eventually done: a
\* command in flight settles, a timer that is set fires.
PendingWork ==
    \/ \E ok \in BOOLEAN : InstallSettled(ok)
    \/ InstallTimerFires
    \/ \E k \in 1..Len(requests) : NavListStoresSettled(k, TRUE)
    \/ \E k \in 1..Len(requests) : NavStoreDataSettled(k, TRUE)
    \/ \E k \in 1..Len(requests) :
           \E packages \in FilterResponses(requests[k].store) :
               NavFilterPackagesSettled(k, TRUE, packages)

NextInstall ==
    \/ /\ \E n \in 1..Len(state.packages) : HandleAppSelect(n)
       /\ UNCHANGED notNav
    \/ HandleBack /\ UNCHANGED notNav
    \/ HandleInstall /\ UNCHANGED notNav
    \/ /\ \E ok \in BOOLEAN : InstallSettled(ok)
       /\ UNCHANGED notNav
    \/ InstallTimerFires /\ UNCHANGED notNav
    \/ /\ \E k \in 1..Len(requests) : NavListStoresSettled(k, TRUE)
       /\ UNCHANGED notNav
    \/ /\ \E k \in 1..Len(requests) : NavStoreDataSettled(k, TRUE)
       /\ UNCHANGED notNav
    \/ /\ \E k \in 1..Len(requests) :
             \E packages \in FilterResponses(requests[k].store) :
                 NavFilterPackagesSettled(k, TRUE, packages)
       /\ UNCHANGED notNav

SpecInstall == InitNav /\ [][NextInstall]_vars /\ WF_vars(PendingWork /\ UNCHANGED notNav)

\* ========================================================================
\* Properties of the Command Gateway
\* ========================================================================
Started(i) == call[i].kind # "idle"
IsExec(i) == call[i].kind = "exec"
IsStreaming(i) == call[i].kind \in {"install", "remove"}

\* every callback the invocation will ever get has been delivered
Completed(i) ==
    /\ call[i].closeReq # "requested"
    /\ proc[i] = "ended" \/ call[i].closeReq = "closed"

\* a step in which a callback of invocation j ran (or j was invoked)
StepOf(j) ==
    \/ proc'[j] # proc[j]
    \/ emitted'[j] # emitted[j]
    \/ call'[j].timerArmed # call[j].timerArmed
    \/ call'[j].closeReq # call[j].closeReq

SettledAtMostOnce == \A i \in Invs : Len(call[i].calls) <= 1

SettledWhenCompleted ==
    \A i \in Invs : Started(i) /\ Completed(i) => Len(call[i].calls) = 1

GuardUntouchedByOthers ==
    \A j \in Invs :
        (call'[j].settled # call[j].settled \/ call'[j].calls # call[j].calls)
            => StepOf(j)

\* C1: under every interleaving of the stream, done, fail, timer and close
\* callbacks of any number of invocations in flight, the promise of each
\* invocation is settled at most once, and exactly once when all its
\* callbacks have been delivered; the settled guard and the promise of an
\* invocation change only in steps of that invocation's own callbacks.
C1_SettledExactlyOnce ==
    /\ [](SettledAtMostOnce /\ SettledWhenCompleted)
    /\ [][GuardUntouchedByOthers]_vars

\* two invocations in flight together, one timed out, the other resolved
C1_Witness ==
    /\ call[1].kind = "exec" /\ call[2].kind = "install"
    /\ Completed(1) /\ Completed(2)
    /\ Len(call[1].calls) = 1 /\ call[1].calls[1].code = <<"TIMEOUT">>
    /\ proc[1] = "ended"
    /\ Len(call[2].calls) = 1 /\ call[2].calls[1].k = "resolve"

\* ------------------------------------------------------------------------
IsTimeoutCall(o) == o.k = "reject" /\ o.code = <<"TIMEOUT">>

TimerClosesAndSettles ==
    \A i \in Invs :
        (first[i] = "none" /\ first'[i] = "timer")
            => /\ call'[i].settled
               /\ call'[i].closeReq = "requested"
               /\ call'[i].calls = call[i].calls

AfterTimerOnlyTimeout ==
    \A i \in Invs :
        first[i] = "timer" =>
            /\ \A n \in 1..Len(call[i].calls) : IsTimeoutCall(call[i].calls[n])
            /\ call[i].closeReq = "closed" =>
                  call[i].calls = <<ContainerAppsError(
                      <<"Command timed out after ", ToString(call[i].timeout), "ms">>,
                      <<"TIMEOUT">>, Undefined)>>

DoneOrFailCancelsTimer ==
    \A i \in Invs :
        (IsExec(i) /\ first[i] \in {"done", "fail"}) =>
            /\ ~call[i].timerArmed
            /\ call[i].closeReq = "no"
            /\ \A n \in 1..Len(call[i].calls) : ~IsTimeoutCall(call[i].calls[n])

\* C2: executeCommand with timeout > 0.  When the timer fires before done
\* and fail, the process is closed and the guard is set; the only settlement
\* the promise ever gets is the TIMEOUT rejection made by the close
\* callback, whatever done or fail callback comes later.  When done or fail
\* comes first, the timer is cancelled, the process is not closed and no
\* TIMEOUT rejection is ever made.
C2_Timeout ==
    /\ [][TimerClosesAndSettles]_vars
    /\ [](AfterTimerOnlyTimeout /\ DoneOrFailCancelsTimer)

\* timer fired first, the process ended afterwards, the promise is TIMEOUT
C2_Witness ==
    /\ call[1].timeout > 0
    /\ first[1] = "timer"
    /\ proc[1] = "ended"
    /\ call[1].closeReq = "closed"
    /\ Len(call[1].calls) = 1 /\ IsTimeoutCall(call[1].calls[1])

RECURSIVE ScanLines(_, _, _)
ScanLines(t, cur, acc) ==
    IF t = <<>> THEN [lines |-> acc, rest |-> cur]
    ELSE IF Head(t) = NL THEN ScanLines(Tail(t), <<>>, Append(acc, cur))
    ELSE ScanLines(Tail(t), Append(cur, Head(t)), acc)

CompleteLines(t) == ScanLines(t, <<>>, <<>>).lines
UnfinishedLine(t) == ScanLines(t, <<>>, <<>>).rest

\* the documents of the complete lines that are valid JSON, in stream order
LineDocs(t) ==
    LET lines == CompleteLines(t)
        docs == [n \in 1..Len(lines) |-> JSONparse(lines[n])]
    IN  SelectSeq(docs, LAMBDA d : d.valid)

ProgressDocs(t) == SelectSeq(LineDocs(t), LAMBDA d : d.type = <<"progress">>)
SettlingDocs(t) ==
    SelectSeq(LineDocs(t), LAMBDA d : d.success \/ d.error # Undefined)

\* the failure callback found the promise unsettled
FailedUnsettled(i) ==
    /\ Started(i)
    /\ first[i] = "fail"
    /\ IsStreaming(i) => SettlingDocs(emitted[i]) = <<>>

RawFailText(i) ==
    IF failArg[i][1] # <<>> THEN failArg[i][1] ELSE failArg[i][2]

EnvelopePassedThrough(o, parsed) ==
    /\ o.k = "reject"
    /\ o.message = parsed.error
    /\ o.code = parsed.code
    /\ o.details = parsed.details

\* C4 as stated: on the failure path of every gateway call, a payload
\* holding an error envelope is passed through, and a payload that does not
\* parse is rejected with code COMMAND_FAILED.
C4_Original ==
    \A i \in Invs :
        FailedUnsettled(i) =>
            LET parsed == JSONparse(RawFailText(i))
                o == call[i].calls[1]
            IN  /\ Len(call[i].calls) = 1
                /\ (parsed.valid /\ parsed.error # Undefined) =>
                       EnvelopePassedThrough(o, parsed)
                /\ ~parsed.valid =>
                       o.k = "reject" /\ o.code = <<"COMMAND_FAILED">>

\* C4 (amended): on the failure path, a payload holding an error envelope is
\* passed through with its error, code and details; any other payload is
\* rejected with the raw text as message (a fixed message when the text is
\* empty) and no details, with code COMMAND_FAILED for executeCommand,
\* INSTALL_FAILED for installPackage and REMOVE_FAILED for removePackage.
C4_FailPath ==
    \A i \in Invs :
        FailedUnsettled(i) =>
            LET raw == RawFailText(i)
                parsed == JSONparse(raw)
                o == call[i].calls[1]
            IN  /\ Len(call[i].calls) = 1
                /\ (parsed.valid /\ parsed.error # Undefined) =>
                       EnvelopePassedThrough(o, parsed)
                /\ ~(parsed.valid /\ parsed.error # Undefined) =>
                       /\ o.k = "reject"
                       /\ o.details = Undefined
                       /\ raw # <<>> => o.message = raw
                       /\ raw = <<>> => Len(o.message) = 1 /\ o.message # Undefined
                       /\ o.code = CASE call[i].kind = "exec" -> <<"COMMAND_FAILED">>
                                     [] call[i].kind = "install" -> <<"INSTALL_FAILED">>
                                     [] call[i].kind = "remove" -> <<"REMOVE_FAILED">>

\* a streaming install failed with text that is not JSON
C4_Witness ==
    /\ call[1].kind = "install"
    /\ FailedUnsettled(1)
    /\ failArg[1] = <<<<"x">>, <<"y">>>>
    /\ call[1].calls[1].code = <<"INSTALL_FAILED">>

\* ------------------------------------------------------------------------
OutcomeOfLine(d) ==
    IF d.success THEN Resolved("")
    ELSE ContainerAppsError(d.error, d.code, d.details)

ProgressCallbacks(t) ==
    [n \in 1..Len(ProgressDocs(t)) |->
        <<ProgressDocs(t)[n].percentage, ProgressDocs(t)[n].message>>]

ProgressScenario == <<"{", "p", "}", NL, "{", "s", "}", NL>>

\* C5: installPackage / removePackage parse every complete stdout line on
\* its own, in stream order: the progress callback has been invoked exactly
\* once per progress line, with that line's (percentage, message); the first
\* line with success or error settles the promise, success resolving it and
\* error rejecting it with the line's envelope.  After a (50, m) progress
\* line and a success line there is one callback (50, m) and the promise is
\* resolved.
C5_StreamLines ==
    \A i \in Invs :
        IsStreaming(i) =>
            LET t == emitted[i]
                settling == SettlingDocs(t)
            IN  /\ call[i].onProgress => call[i].progress = ProgressCallbacks(t)
                /\ settling # <<>> => call[i].calls = <<OutcomeOfLine(settling[1])>>
                /\ (settling = <<>> /\ proc[i] = "running") => call[i].calls = <<>>
                /\ (t = ProgressScenario /\ call[i].onProgress) =>
                       /\ call[i].progress = <<<<50, <<"half">>>>>>
                       /\ call[i].calls = <<Resolved("")>>

\* the scenario: one progress line, then success, then the process exits
C5_Witness ==
    /\ call[1].kind = "install" /\ call[1].onProgress
    /\ emitted[1] = ProgressScenario
    /\ proc[1] = "ended" /\ first[1] = "done"
    /\ call[1].progress = <<<<50, <<"half">>>>>>
    /\ call[1].calls = <<Resolved("")>>

\* ------------------------------------------------------------------------
\* the text without its complete lines that are not valid JSON
RECURSIVE JoinLines(_)
JoinLines(lines) ==
    IF lines = <<>> THEN <<>>
    ELSE Head(lines) \o <<NL>> \o JoinLines(Tail(lines))

WithoutInvalidLines(t) ==
    JoinLines(SelectSeq(CompleteLines(t), LAMBDA l : JSONparse(l).valid))
        \o UnfinishedLine(t)

\* what the stream handler leaves when it gets the text as a single chunk
InOneChunk(i, t) ==
    OnStream(NewCall(call[i].kind, call[i].timeout, call[i].onProgress), t)

SameStreamResult(c, d) ==
    /\ c.progress = d.progress
    /\ c.calls = d.calls
    /\ c.settled = d.settled

\* C6: for installPackage / removePackage, as long as the process runs, the
\* progress callbacks made, the settlement and the line buffer are those of
\* handing the whole text received so far to the stream handler as a single
\* chunk: the buffer holds exactly the text after the last newline, and
\* dropping the newline-terminated lines that are not valid JSON from the
\* text changes neither the callbacks nor the settlement.
C6_ChunkIndependent ==
    \A i \in Invs :
        (IsStreaming(i) /\ proc[i] = "running") =>
            /\ SameStreamResult(call[i], InOneChunk(i, emitted[i]))
            /\ call[i].stdout = UnfinishedLine(emitted[i])
            /\ SameStreamResult(call[i],
                                InOneChunk(i, WithoutInvalidLines(emitted[i])))

\* a progress line arrived after a line that is not JSON, and part of the
\* next line is held in the buffer
C6_Witness ==
    /\ call[1].kind = "remove" /\ call[1].onProgress
    /\ proc[1] = "running"
    /\ emitted[1] = <<"x", NL, "{", "p", "}", NL, "{", "s">>
    /\ call[1].stdout = <<"{", "s">>
    /\ call[1].progress = <<<<50, <<"half">>>>>>
    /\ call[1].calls = <<>>

\* ------------------------------------------------------------------------
\* what the handlers leave when the process writes only the complete lines
\* of t and then exits
CompletedWithoutTail(i, t) ==
    StreamDone(InOneChunk(i, JoinLines(CompleteLines(t))))

\* C29: when done is delivered to installPackage / removePackage and no
\* complete line with success or error has been processed, the promise is
\* resolved; the text after the last newline is still in the buffer, was
\* never parsed, and the settlement and the progress callbacks are those of
\* the same output without that text; a streaming operation never arms a
\* timer and never asks for the process to be closed.
C29_DoneResolves ==
    \A i \in Invs :
        IsStreaming(i) =>
            /\ ~call[i].timerArmed
            /\ call[i].closeReq = "no"
            /\ first[i] = "done" =>
                  /\ SettlingDocs(emitted[i]) = <<>> =>
                         call[i].calls = <<Resolved("")>>
                  /\ call[i].stdout = UnfinishedLine(emitted[i])
                  /\ SameStreamResult(call[i],
                                      CompletedWithoutTail(i, emitted[i]))

\* the process wrote a progress line and an error document without the
\* closing newline, then exited: the install is reported as successful
C29_Witness ==
    /\ call[1].kind = "install" /\ call[1].onProgress
    /\ first[1] = "done"
    /\ emitted[1] = <<"{", "p", "}", NL, "{", "e", "}">>
    /\ call[1].stdout = <<"{", "e", "}">>
    /\ call[1].calls = <<Resolved("")>>

\* ========================================================================
\* Properties of the argument encoding
\* ========================================================================
IsPresent(v) == v # Undefined /\ v # <<>>

\* the optional parameters of the call made, as (key prefix, value) in the
\* order the function documents
OptionalParams ==
    CASE params.fn = "filterPackages" ->
             << <<"--store=", params.store_id>>,
                <<"--repo=", params.repository_id>>,
                <<"--category=", params.category_id>>,
                <<"--tab=", params.tab>>,
                <<"--search=", params.search_query>>,
                <<"--limit=", IF params.limit = <<>> THEN Undefined
                              ELSE <<ToString(params.limit[1])>>>> >>
      [] OTHER -> << <<"--store=", params.store_id>> >>

PositionalParams ==
    IF params.fn = "listPackagesByCategory" THEN <<params.category_id>> ELSE <<>>

CommandName ==
    CASE params.fn = "listCategories" -> <<"list-categories">>
      [] params.fn = "listPackagesByCategory" -> <<"list-packages-by-category">>
      [] params.fn = "filterPackages" -> <<"filter-packages">>

KeyPrefixes ==
    {"--store=", "--repo=", "--category=", "--tab=", "--search=", "--limit="}

\* C7: listCategories, listPackagesByCategory and filterPackages put, after
\* the command name and the positional arguments, exactly one token
\* --key=value for every optional parameter that is present, in the order
\* store, repo, category, tab, search, limit, and no token for an absent
\* one; every such token starts with its --key= prefix, so the value of an
\* optional parameter, also one that starts with '-', is never a token of
\* its own.
C7_ArgvEncoding ==
    params.fn # "none" =>
        LET fixed == <<Program, CommandName>> \o PositionalParams
            options == SubSeq(argv, Len(fixed) + 1, Len(argv))
            present == SelectSeq(OptionalParams, LAMBDA kv : IsPresent(kv[2]))
        IN  /\ Len(argv) >= Len(fixed)
            /\ SubSeq(argv, 1, Len(fixed)) = fixed
            /\ Len(options) = Len(present)
            /\ \A n \in 1..Len(options) :
                  /\ options[n] = <<present[n][1]>> \o present[n][2]
                  /\ options[n][1] \in KeyPrefixes
                  /\ \A m \in 1..Len(present) : options[n] # present[m][2]

\* filterPackages with dash-prefixed store and search values and a limit
C7_Witness ==
    /\ params.fn = "filterPackages"
    /\ params.store_id = <<"-", "x">>
    /\ params.repository_id = Undefined
    /\ params.search_query = <<"-", "x">>
    /\ params.limit = <<50>>
    /\ argv = <<Program, <<"filter-packages">>, <<"--store=", "-", "x">>,
                <<"--search=", "-", "x">>, <<"--limit=", "50">>>>

\* ========================================================================
\* Properties of the configuration form
\* ========================================================================
FormFields == FieldsOf(schema.groups)
FieldSet == {FormFields[n] : n \in 1..Len(FormFields)}

\* the form shows its initial values: nothing was edited since they were set
ShowsInitialValues == lastOp \in {"init", "cancel", "load"}

EntryOrUndefined(values, id) ==
    IF id \in DOMAIN values THEN values[id] ELSE Undefined

ConfigOverDefault ==
    \A f \in FieldSet :
        EntryOrUndefined(formValues, f.id) =
            IF f.id \in DOMAIN config THEN config[f.id] ELSE f.default

\* C8 as stated: the initial values hold, for every schema field, the config
\* entry if present and otherwise field.default, and no keys other than the
\* schema's field ids.
C8_Original ==
    ShowsInitialValues =>
        /\ ConfigOverDefault
        /\ DOMAIN formValues \subseteq FieldIds(schema)

\* C8 (amended): the initial values (at mount, after cancel and after a new
\* config is loaded) hold, for every schema field, the config entry if
\* present and otherwise field.default; every entry of the config is kept
\* unchanged, also under keys that are no field ids, and the keys are the
\* config's keys together with the ids of the fields that have a default.
C8_InitialValues ==
    ShowsInitialValues =>
        /\ ConfigOverDefault
        /\ \A k \in DOMAIN config : k \in DOMAIN formValues /\ formValues[k] = config[k]
        /\ DOMAIN formValues =
              DOMAIN config \cup {f.id : f \in {g \in FieldSet : g.default # Undefined}}

\* after cancel: an entry of the config, a default, and a key outside the schema
C8_Witness ==
    /\ lastOp = "cancel"
    /\ DOMAIN config = {"SERVER_NAME", "EXTRA"}
    /\ DOMAIN formValues = {"SERVER_NAME", "EXTRA", "PORT"}
    /\ formValues["SERVER_NAME"] = <<"T">>
    /\ formValues["PORT"] = <<"3", "0", "0", "0">>

\* ------------------------------------------------------------------------
\* the rules of the specification, stated on their own
IsBlank(v) == \A n \in 1..Len(v) : v[n] \in {" ", NL}

IsSignedInteger(v) ==
    \E k \in {0, 1} :
        /\ Len(v) > k
        /\ k = 1 => v[1] = "-"
        /\ \A n \in (k + 1)..Len(v) : v[n] \in Digits

RECURSIVE NaturalOf(_)
NaturalOf(d) ==
    IF d = <<>> THEN 0
    ELSE 10 * NaturalOf(SubSeq(d, 1, Len(d) - 1)) + DigitValue(d[Len(d)])

IntegerOf(v) == IF v[1] = "-" THEN 0 - NaturalOf(Tail(v)) ELSE NaturalOf(v)

WithinBounds(f, n) ==
    /\ f.min # <<>> => n >= f.min[1]
    /\ f.max # <<>> => n <= f.max[1]

FailsRule(f, v) ==
    \/ f.required /\ IsBlank(v)
    \/ /\ f.type = "integer" /\ v # <<>>
       /\ ~(IsSignedInteger(v) /\ WithinBounds(f, IntegerOf(v)))
    \/ /\ f.type = "path"
       /\ \E n \in 1..Len(v) : n + 2 <= Len(v) /\ SubSeq(v, n, n + 2) = <<".", ".", "/">>
    \/ /\ f.type = "enum" /\ v # <<>>
       /\ v \notin {f.options[n] : n \in 1..Len(f.options)}

\* C9: validateForm reports an error for a field exactly when the field
\* fails its rule (required and blank; integer rule; path containing '../';
\* enum value that is non-empty and no option), under the field's id only;
\* a required field holding "" is in the error set whatever the other
\* fields hold; the result is empty iff every field passes; and a save that
\* finds errors records exactly this result.
C9_ValidateForm ==
    lastOp # "none" =>
        LET errors == ValidateForm(schema, formValues)
        IN  /\ DOMAIN errors \subseteq FieldIds(schema)
            /\ \A f \in FieldSet :
                  /\ f.id \in DOMAIN errors <=> FailsRule(f, ValueOf(formValues, f.id))
                  /\ (f.required /\ ValueOf(formValues, f.id) = <<>>)
                        => f.id \in DOMAIN errors
            /\ DOMAIN errors = {} <=>
                  \A f \in FieldSet : ~FailsRule(f, ValueOf(formValues, f.id))
            /\ (lastOp = "save" /\ DOMAIN errors # {}) => validationErrors = errors

\* a save found the required field empty while the other field is valid
C9_Witness ==
    /\ lastOp = "save"
    /\ "SERVER_NAME" \in DOMAIN formValues /\ formValues["SERVER_NAME"] = <<>>
    /\ "PORT" \in DOMAIN formValues /\ formValues["PORT"] = <<"3", "0", "0", "0">>
    /\ DOMAIN validationErrors = {"SERVER_NAME"}
    /\ validationErrors["SERVER_NAME"] = <<"This field is required">>

\* ------------------------------------------------------------------------
\* C10: for an integer field and a non-empty value, validateField accepts
\* the value iff the whole text is a signed integer (optional '-', then
\* digits only) that lies within every bound that is defined; a numeric
\* prefix followed by other characters is rejected; an integer outside the
\* bounds is rejected with a message that names a bound it violates.
C10_IntegerField ==
    (vResult # Pending /\ vField.type = "integer" /\ vValue # <<>>) =>
        /\ vResult = NoError <=>
              (IsSignedInteger(vValue) /\ WithinBounds(vField, IntegerOf(vValue)))
        /\ vValue = <<"1", "5", "a">> => vResult # NoError
        /\ (vValue = <<"1", "5">> /\ vField.max # <<>>) => vResult = NoError
        /\ (IsSignedInteger(vValue) /\ ~WithinBounds(vField, IntegerOf(vValue))) =>
              \/ /\ vField.min # <<>> /\ IntegerOf(vValue) < vField.min[1]
                 /\ vResult = <<"Value must be at least ", ToString(vField.min[1])>>
              \/ /\ vField.max # <<>> /\ IntegerOf(vValue) > vField.max[1]
                 /\ vResult = <<"Value must be at most ", ToString(vField.max[1])>>

\* an integer above the maximum was rejected with the maximum in the message
C10_Witness ==
    /\ vField.type = "integer"
    /\ vField.min = <<5>> /\ vField.max = <<50>>
    /\ vValue = <<"5", "5">>
    /\ vResult = <<"Value must be at most ", "50">>

\* ========================================================================
\* Properties of the app details view
\* ========================================================================
SomeFieldFails ==
    \E f \in FieldSet : FailsRule(f, ValueOf(formValues, f.id))

\* a step that issues set-config
IssuesSetConfig == saving'.phase = "set" /\ saving.phase # "set"

\* C11: a click on Save calls onSave, and so issues set-config, iff no field
\* of the current form values fails its rule; when a field fails, onSave is
\* not called, no backend command is issued and nothing is in flight
\* afterwards, the errors of exactly the failing fields are recorded, and
\* the form values are unchanged; set-config is never issued in any other
\* way, and always with the form values of that moment.
C11_SaveIffValid ==
    /\ [][DetailsSave =>
            /\ formValues' = formValues
            /\ SomeFieldFails =>
                  /\ lastSave' = lastSave
                  /\ saving' = saving /\ loads' = loads
                  /\ lastCommand' = lastCommand
                  /\ ~isSavingConfig'
                  /\ DOMAIN validationErrors' =
                        {f.id : f \in {g \in FieldSet :
                                         FailsRule(g, ValueOf(formValues, g.id))}}
            /\ ~SomeFieldFails =>
                  /\ lastSave' = [called |-> TRUE, arg |-> formValues]
                  /\ IssuesSetConfig /\ lastCommand' = "set-config"
                  /\ isSavingConfig']_vars
    /\ [][IssuesSetConfig =>
            /\ ~SomeFieldFails
            /\ saving'.submitted = formValues
            /\ lastSave' = [called |-> TRUE, arg |-> formValues]]_vars
    /\ [][lastSave' # lastSave => ~SomeFieldFails]_vars

\* PORT was edited to "70000" (max 65535) and Save was clicked: the error is
\* recorded, the value stays, nothing was sent
C11_Witness ==
    /\ lastOp = "save"
    /\ DOMAIN validationErrors = {"PORT"}
    /\ validationErrors["PORT"] = <<"Value must be at most ", "65535">>
    /\ formValues["PORT"] = <<"7", "0", "0", "0", "0">>
    /\ ~lastSave.called
    /\ saving = NoSaving /\ ~isSavingConfig
    /\ lastCommand = "get-config-schema, get-config"

\* a loadConfiguration call or the re-fetch of a save ends in this step
LoadOrRefetchEnds ==
    \/ Len(loads') < Len(loads)
    \/ saving.phase = "get" /\ saving'.phase = "none"

\* C12: whatever was edited or rejected before, a click on Cancel leaves the
\* form values equal to the merge of the held config over the schema
\* defaults, the validation errors empty and the save error and warning
\* null, and changes neither config nor schema; the held config is the one
\* last loaded: it changes only when a load or a re-fetch ends, never by an
\* edit, a save attempt or a cancel.
C12_CancelResets ==
    /\ [][DetailsCancel =>
            /\ ConfigOverDefault'
            /\ DOMAIN formValues' =
                  DOMAIN config \cup
                  {f.id : f \in {g \in FieldSet : g.default # Undefined}}
            /\ \A k \in DOMAIN config : formValues'[k] = config[k]
            /\ validationErrors' = EmptyValues
            /\ saveError' = Null /\ saveWarning' = Null
            /\ config' = config /\ schema' = schema]_vars
    /\ [][(config' # config \/ schema' # schema) => LoadOrRefetchEnds]_vars

\* after Cancel: the loaded entry and a default are back, no errors are left
C12_Witness ==
    /\ lastOp = "cancel"
    /\ config = Put(EmptyValues, "PORT", <<"8", "0">>)
    /\ formValues = Put(Put(EmptyValues, "PORT", <<"8", "0">>),
                        "SERVER_NAME", <<"M">>)
    /\ validationErrors = EmptyValues
    /\ saveError = Null /\ saveWarning = Null
    /\ ~lastSave.called

\* the save whose set-config succeeded ends in this step
AcceptedSaveEnds == saving.phase = "get" /\ saving'.phase = "none"

\* C13: when set-config of a validated save has succeeded, get-config is
\* issued at that moment (after set-config, never before), and when the
\* save ends the form shows the merge of the held config over the schema
\* defaults, isSaving is false and there is no save error.
C13_Original ==
    /\ [][(saving.phase = "set" /\ saving'.phase = "get") =>
            lastCommand' = "get-config"]_vars
    /\ [][lastCommand' = "get-config" /\ lastCommand # "get-config" =>
            saving.phase = "set" /\ saving'.phase = "get"]_vars
    /\ [][AcceptedSaveEnds =>
            /\ ~isSavingConfig'
            /\ saveError' = Null
            /\ FormShown' => ConfigOverDefault']_vars

\* set-config failed in this step
SaveFails == saving.phase = "set" /\ saving'.phase = "none"

\* the messages a failed set-config can leave, by its kind of failure
SaveFailureMessages ==
    { <<"E", ": ", "d">>, <<"Failed to save configuration">>,
      <<"Command timed out after ", "30000", "ms">> }

\* C14: when set-config fails, the step leaves the form values, the
\* validation errors, the held config and the schema exactly as they were
\* (also values typed while the save was running), stores a non-empty save
\* error made of the failure's message and details, and sets isSaving to
\* false with the form still rendered, so that Save can be clicked again.
C14_FailedSaveKeepsInput ==
    [][SaveFails =>
         /\ formValues' = formValues
         /\ validationErrors' = validationErrors
         /\ config' = config /\ schema' = schema
         /\ saveError' \in SaveFailureMessages
         /\ saveError' # Null /\ saveError' # <<>>
         /\ ~isSavingConfig'
         /\ FormShown']_vars

\* a save failed with message and details; the value typed before it is
\* still in the form and differs from the held config
C14_Witness ==
    /\ saveError = <<"E", ": ", "d">>
    /\ ~isSavingConfig /\ saving = NoSaving
    /\ FormShown
    /\ lastSave.called
    /\ config = EmptyValues
    /\ formValues = Put(Put(EmptyValues, "PORT", <<"3", "0", "0", "0">>),
                        "SERVER_NAME", <<"d">>)

\* the messages a failed load can leave, by its kind of failure
LoadFailureMessages ==
    { <<"Failed to load configuration schema">>,
      <<"Failed to load configuration">>,
      <<"E", ": ", "d">>,
      <<"Command timed out after ", "30000", "ms">> }

\* a load ends in this step
LoadEnds == Len(loads') < Len(loads)

\* C15: every outcome of a configuration load is handled: once the load of
\* an installed app has ended, either schema and config are held and there
\* is no configError, or the load failed: then the held schema is null, the
\* configuration form is not rendered and holds nothing, configError is the
\* non-empty message of the failure, and in both cases isLoadingConfig is
\* false; a failed load leaves the held config and the save state alone.
C15_LoadFailureHandled ==
    /\ [](loads = <<>> /\ pkg.installed =>
            /\ ~isLoadingConfig
            /\ \/ schema # NoSchema /\ configError = Null
               \/ /\ schema = NoSchema
                  /\ ~FormShown
                  /\ formValues = EmptyValues /\ validationErrors = EmptyValues
                  /\ configError \in LoadFailureMessages
                  /\ configError # Null /\ configError # <<>>)
    /\ [][LoadEnds /\ schema' = NoSchema =>
            /\ config' = config
            /\ saveError' = saveError /\ saving' = saving
            /\ ~isLoadingConfig']_vars

\* the schema command answered success: false: nothing is shown but the message
C15_Witness ==
    /\ pkg.installed /\ loads = <<>>
    /\ schema = NoSchema
    /\ ~isLoadingConfig
    /\ configError = <<"Failed to load configuration schema">>
    /\ ~FormShown

\* ========================================================================
\* Properties of the package cache and its filters
\* ========================================================================
\* the install-status rule
StatusKeeps(filter, p) ==
    \/ filter = "all"
    \/ filter = "available" /\ ~p.installed
    \/ filter = "installed" /\ p.installed

\* the search rule: skipped for a blank query, otherwise the trimmed query
\* occurs in the name or in the summary, letter case ignored
SearchKeeps(query, p) ==
    LET q == ToLowerCase(Trim(query))
    IN  \/ q = <<>>
        \/ Includes(ToLowerCase(p.name), q)
        \/ Includes(ToLowerCase(p.summary), q)

\* C16: filterPackagesClientSide returns exactly the packages of its input
\* that satisfy the install-status rule and the search rule together, in
\* the order of the input; 'available' over [a not installed, b installed]
\* yields exactly [a].
C16_ClientSideDerivation ==
    fDone =>
        /\ fResult = SelectSeq(fPackages,
                        LAMBDA p : StatusKeeps(fFilter, p) /\ SearchKeeps(fQuery, p))
        /\ (/\ fFilter = "available" /\ fQuery = <<>>
            /\ fPackages = <<Package(<<"a">>, <<"B", "a">>, FALSE, <<"c">>),
                             Package(<<"b">>, <<>>, TRUE, <<>>)>>)
              => fResult = <<Package(<<"a">>, <<"B", "a">>, FALSE, <<"c">>)>>

\* a padded upper-case query matched a name after both filters applied
C16_Witness ==
    /\ fDone
    /\ fFilter = "installed"
    /\ fQuery = <<" ", "A", "b", " ">>
    /\ fPackages = <<Package(<<"a">>, <<"B", "a">>, FALSE, <<"c">>),
                     Package(<<"A", "b">>, <<"a", " ", "b">>, TRUE, <<>>)>>
    /\ fResult = <<Package(<<"A", "b">>, <<"a", " ", "b">>, TRUE, <<>>)>>

\* setInstallFilter was called in this step
InstallFilterSet == \E filter \in InstallFilters : SetInstallFilter(filter)

\* the active store's package set is cached
CacheWarm == Len(state.allPackages) > 0

\* the displayed list holds only packages that pass the install filter
DisplayedPassFilter ==
    \A n \in 1..Len(state.packages) :
        StatusKeeps(state.installFilter, state.packages[n])

\* C17: whenever the active store's package set is cached, setInstallFilter(f)
\* issues no backend command and, in the state update that sets installFilter
\* to f, sets the displayed list to the derivation of the cached set under f
\* and the other filters: with no category selected the list is the
\* derivation under f and the search query, and with a category selected it
\* holds no package that f excludes.
C17_Original ==
    [][(InstallFilterSet /\ CacheWarm) =>
          /\ issued' = issued
          /\ state.activeCategory = NoneId =>
                state'.packages =
                    SelectSeq(state.allPackages,
                              LAMBDA p : /\ StatusKeeps(state'.installFilter, p)
                                         /\ SearchKeeps(state.searchQuery, p))
          /\ DisplayedPassFilter']_vars

\* the part of C17 that holds: no command is issued, and with no category
\* selected the list is the derivation
C17_NoCategoryPart ==
    [][(InstallFilterSet /\ CacheWarm) =>
          /\ issued' = issued
          /\ state.activeCategory = NoneId =>
                state'.packages =
                    SelectSeq(state.allPackages,
                              LAMBDA p : /\ StatusKeeps(state'.installFilter, p)
                                         /\ SearchKeeps(state.searchQuery, p))]_vars

\* the category rule: skipped when no category is selected, otherwise the
\* package's categories list contains the selected category id
CategoryKeeps(categoryId, p) ==
    \/ categoryId = NoneId
    \/ \E n \in 1..Len(p.categories) : p.categories[n] = categoryId

\* a category was selected, or the search query changed, or the search
\* debounce ran out, in this step
CategoryOrSearchChanged ==
    \/ \E categoryId \in CategoryIds \cup {NoneId} : SetActiveCategory(categoryId)
    \/ \E query \in ContextQueries : SetSearchQuery(query)
    \/ \E t \in timers : DebounceFires(t)

\* C18: once the store's complete package set is cached, selecting a category
\* or changing the search query issues no backend command, and the displayed
\* list is the cached set restricted by the category rule (the package's
\* categories list contains the selected id), the install filter and the
\* search query.
C18_Original ==
    [][(CacheWarm /\ CategoryOrSearchChanged) =>
          /\ issued' = issued
          /\ state'.packages =
                SelectSeq(state.allPackages,
                          LAMBDA p : /\ CategoryKeeps(state'.activeCategory, p)
                                     /\ StatusKeeps(state'.installFilter, p)
                                     /\ SearchKeeps(state'.searchQuery, p))]_vars

\* the part of C18 that holds: with no category selected before and after
\* the step, no command is issued and the list is re-derived from the cache
C18_NoCategoryPart ==
    [][(/\ CacheWarm /\ CategoryOrSearchChanged
        /\ state.activeCategory = NoneId /\ state'.activeCategory = NoneId) =>
          /\ issued' = issued
          /\ state'.packages =
                SelectSeq(state.allPackages,
                          LAMBDA p : /\ StatusKeeps(state'.installFilter, p)
                                     /\ SearchKeeps(state'.searchQuery, p))]_vars

\* setActiveStore(storeId) was called in this step with a store other than
\* the active one
StoreSwitchedTo(storeId) ==
    /\ storeId # state.activeStore
    /\ SetActiveStore(storeId)

\* the newest command in flight is a get-store-data for storeId that carries
\* the current request id
FreshFetchFor(storeId) ==
    /\ requests # <<>>
    /\ requests[Len(requests)].command = "get-store-data"
    /\ requests[Len(requests)].store = storeId
    /\ requests[Len(requests)].requestId = loadRequestId

\* the cache goes from one content to another, non-empty one in this step
CachePopulated ==
    /\ state'.allPackages # <<>>
    /\ state'.allPackages # state.allPackages

\* a get-store-data for the active store settles in this step and its
\* packages become the cache
ActiveStoreResponse ==
    \E k \in 1..Len(requests) :
        /\ requests[k].command = "get-store-data"
        /\ requests[k].store = state.activeStore
        /\ requests' = RemoveAt(requests, k)
        /\ state'.allPackages = StoreData(state.activeStore)
        /\ state'.activeStore = state.activeStore

StartsWith(path, keyword) ==
    /\ Len(path) >= 2
    /\ path[1] = keyword
    /\ path[2] # ""

\* C20: parseLocationToRouter answers every location: an empty path gives the
\* store state; a path starting ['category', id] with a non-empty id gives
\* the category state with selectedCategory = id; a path starting
\* ['app', name] with a non-empty name gives the app state with appName =
\* name and selectedPackage = null; segments after the second are ignored;
\* every other path gives the store state.
C20_ParseTotal ==
    parseDone =>
        LET path == location.path
        IN  /\ router.route \in {"store", "category", "app"}
            /\ path = <<>> => router = RouterState("store", UnsetPackage, Absent, Absent)
            /\ StartsWith(path, "category") =>
                  router = RouterState("category", UnsetPackage, path[2], Absent)
            /\ StartsWith(path, "app") =>
                  router = RouterState("app", NoPackage, Absent, path[2])
            /\ Len(path) > 2 =>
                  router = ParseLocationToRouter(
                               [location EXCEPT !.path = SubSeq(path, 1, 2)])
            /\ (~StartsWith(path, "category") /\ ~StartsWith(path, "app")) =>
                  router = RouterState("store", UnsetPackage, Absent, Absent)

\* an app path with a third segment and query options was parsed
C20_Witness ==
    /\ parseDone
    /\ location.path = <<"app", "signalk-server", "category">>
    /\ location.options.store = "m"
    /\ router = RouterState("app", NoPackage, Absent, "signalk-server")

\* the location has one of the three route shapes
RouteShaped(path) ==
    \/ path = <<>>
    \/ Len(path) = 2 /\ path[1] \in {"category", "app"} /\ path[2] # ""

\* C21: for every location of the three route shapes, parsing it, building a
\* location from the parsed state with the same store and filter parameters
\* and parsing again gives the state of the first parse, and the built path
\* is the original path.
C21_Original ==
    (roundStep = "reparsed" /\ RouteShaped(location.path)) =>
        /\ reparsed = router
        /\ built.path = location.path

\* the part of C21 that holds: the store and category shapes
C21_StoreAndCategoryPart ==
    (/\ roundStep = "reparsed" /\ RouteShaped(location.path)
     /\ router.route # "app") =>
        /\ reparsed = router
        /\ built.path = location.path

\* a get-store-data whose request id is no longer the latest settles in this
\* step
SupersededSettles ==
    \E k \in 1..Len(requests) :
        /\ requests[k].command = "get-store-data"
        /\ requests[k].requestId # loadRequestId
        /\ requests' = RemoveAt(requests, k)

\* a get-store-data settles in this step and the state changes
StoreResultApplied ==
    /\ state' # state
    /\ \E k \in 1..Len(requests) :
          /\ requests[k].command = "get-store-data"
          /\ requests' = RemoveAt(requests, k)

SearchQuerySet == \E query \in ContextQueries : SetSearchQuery(query)

\* C26: at most one debounce timer is pending at any time; when the store's
\* package set is not cached, setSearchQuery leaves exactly the timer it
\* starts pending, so a burst of calls leads to one load, after the last
\* call; when the set is cached, setSearchQuery starts no timer, issues no
\* backend command and re-derives the displayed list in the same step.
C26_Original ==
    [][/\ Cardinality(timers') <= 1
       /\ (SearchQuerySet /\ ~CacheWarm) =>
             /\ timers' = {searchDebounceTimer'}
             /\ searchDebounceTimer' \notin timers
             /\ issued' = issued
       /\ (SearchQuerySet /\ CacheWarm) =>
             /\ timers' = {}
             /\ issued' = issued
             /\ DisplayedPassFilter'
             /\ \A n \in 1..Len(state'.packages) :
                   SearchKeeps(state'.searchQuery, state'.packages[n])]_vars

\* the part of C26 that holds: one timer at most, the cold-cache rule, and
\* the warm-cache rule when no category is selected
C26_DebouncePart ==
    [][/\ Cardinality(timers') <= 1
       /\ (SearchQuerySet /\ ~CacheWarm) =>
             /\ timers' = {searchDebounceTimer'}
             /\ searchDebounceTimer' \notin timers
             /\ issued' = issued
       /\ (SearchQuerySet /\ CacheWarm /\ state.activeCategory = NoneId) =>
             /\ timers' = {}
             /\ issued' = issued
             /\ state'.packages =
                   SelectSeq(state.allPackages,
                             LAMBDA p : /\ StatusKeeps(state'.installFilter, p)
                                        /\ SearchKeeps(state'.searchQuery, p))]_vars

\* a package load is in flight
PackageLoadInFlight ==
    \E k \in 1..Len(requests) :
        requests[k].command \in {"get-store-data", "filter-packages"}

\* the displayed list is the client-side derivation of the cache
DisplayedIsDerivation ==
    /\ state.packages =
          SelectSeq(state.allPackages,
                    LAMBDA p : /\ StatusKeeps(state.installFilter, p)
                               /\ SearchKeeps(state.searchQuery, p))
    /\ state.totalPackageCount = Len(state.packages)

\* C28: whenever no package load is in flight and no category is selected,
\* the displayed list is the client-side derivation of the cached package set
\* under the current install filter and search query, and totalPackageCount
\* is its length; a filter or search change made while a store fetch was in
\* flight is included. States with a debounce timer pending or a failed
\* load are left out of the statement.
C28_Original ==
    (/\ ~PackageLoadInFlight
     /\ state.activeCategory = NoneId
     /\ timers = {}
     /\ state.packagesError = Null)
        => DisplayedIsDerivation

\* ========================================================================
\* Properties of the details view while the package changes
\* ========================================================================
\* a loadConfiguration call settles in this step that was started for
\* another package than the one displayed, or for a package that is no
\* longer installed
LateLoadSettles ==
    \E k \in 1..Len(loads) :
        /\ loads' = RemoveAt(loads, k)
        /\ pkg' = pkg
        /\ loads[k] # pkg.name \/ ~pkg.installed

\* C30: the response of a configuration load that was started for a package
\* no longer displayed, or no longer installed, is not applied: the step in
\* which it arrives changes neither the schema, nor the config, nor the
\* configuration error of the view.
C30_Original ==
    [][LateLoadSettles =>
          /\ schema' = schema
          /\ config' = config
          /\ configError' = configError]_vars

\* ========================================================================
\* Properties of password values
\* ========================================================================
\* the password values the view has met: the one stored on the backend and
\* the ones typed into the form
SecretValues == {StoredSecret} \cup (SecretEdits \ {<<>>})

\* the error and warning texts the view shows
ShownMessages ==
    {configError, saveError, saveWarning}
        \cup {validationErrors[id] : id \in DOMAIN validationErrors}

\* C24: no text the details view shows as an error or a warning (validation
\* messages, load and save errors with the details of gateway errors)
\* contains the value of a password field.
C24_Original ==
    \A m \in ShownMessages : \A v \in SecretValues : ~Includes(m, v)

\* ------------------------------------------------------------------------
\* Properties of the navigation
\* ------------------------------------------------------------------------
\* a location-changed notification is handled
LocationChangedStep == \E loc \in NavLocations : LocationChanged(loc)

\* loadPackages() ran: a command was issued, or the list was derived from
\* the cache
PackageLoadTriggered ==
    \/ Len(requests') > Len(requests)
    \/ Len(state.allPackages) > 0 /\ state.activeCategory = NoneId

\* C22: on a location-changed notification the router state becomes the parse
\* of the current location; a category location also makes its id the active
\* category; an app location gets the package of that name from the loaded
\* packages as selectedPackage, and otherwise null, with a package load
\* triggered when no packages are loaded
C22_LocationChangedReparses ==
    [][LocationChangedStep =>
        LET parsed22 == ParseLocationToRouter(location')
            found == FindPackageByName(state.packages,
                                       NameOfSegment(parsed22.appName))
        IN  /\ router'.route = parsed22.route
            /\ router'.selectedCategory = parsed22.selectedCategory
            /\ router'.appName = parsed22.appName
            /\ parsed22.route = "category" =>
                   state'.activeCategory = parsed22.selectedCategory
            /\ parsed22.route = "app" =>
                   /\ router'.selectedPackage =
                          (IF found # UnsetPackage THEN found ELSE NoPackage)
                   /\ Len(state.packages) = 0 => PackageLoadTriggered
            /\ parsed22.route \notin {"category", "app"} =>
                   router' = parsed22]_vars

\* the browser moved to the details of a package after the application had
\* applied its first location, and the package is selected
C22_Witness ==
    /\ hasInitialized
    /\ location.path = <<"app", "a">>
    /\ location.options.filter = "installed"
    /\ state.installFilter = "all"
    /\ router.route = "app"
    /\ HasPackage(router)

\* the application was opened at the details of package a, no package is
\* selected yet, and the data of the store, with package a, is loaded
DeepLinkUnresolved ==
    /\ location.path = <<"app", "a">>
    /\ router.route = "app"
    /\ router.appName = "a"
    /\ ~HasPackage(router)
    /\ FindPackageByName(state.allPackages, <<"a">>) # UnsetPackage

\* C23: when the application is opened at the details of a package while the
\* cache is empty and the store's packages, the named one among them, are then
\* loaded, the router's selectedPackage eventually becomes that package
C23_Original ==
    DeepLinkUnresolved ~>
        (router.route = "app" /\ router.selectedPackage.name = <<"a">>)

\* package a was installed from its details view, and the refresh has
\* brought the package data in which it is installed
InstalledFromDetails ==
    /\ <<"a">> \in installedApps
    /\ router.route = "app"
    /\ router.selectedPackage.name = <<"a">>
    /\ install.phase \in {"none", "timer"}
    /\ \/ FindPackageByName(state.packages, <<"a">>).installed
       \/ FindPackageByName(state.allPackages, <<"a">>).installed

\* C27: after an install from the details view has resolved and the refresh
\* has completed, the selected package eventually is the refreshed one, with
\* installed = true, and no action is in progress, unless the user has left
\* the details view
C27_Original ==
    InstalledFromDetails ~>
        \/ router.route # "app"
        \/ router.selectedPackage.installed /\ ~actionInProgress

\* nothing is pending: no command in flight, no install, no timer
Quiet == requests = <<>> /\ install.phase = "none"

\* whatever is pending can be done: MaxCommands stops no continuation
PendingWorkEnabled == Quiet \/ ENABLED (PendingWork /\ UNCHANGED notNav)

====
